---- MODULE Spec2Model ----
(***************************************************************************)
(* A model of nipype/interfaces/fsl.py: the FSL command adapters (Bet,     *)
(* Fast, Flirt, McFlirt, Fnirt), the option map engine they share          *)
(* (FSLCommand._parse_inputs), the output-format registry (fsloutputtype)  *)
(* and each adapter's run / aggregate_outputs protocol.                    *)
(*                                                                         *)
(* Python values are tagged records (NoneV, VBool, VInt, VStr, VList).     *)
(* A string that names a file is kept as a directory and the dot-separated *)
(* segments of its base name, so that os.path.splitext and fname_presuffix *)
(* are computed, not assumed.  A format template 'x %d %d' is kept as the  *)
(* sequence of its blank-separated words.                                  *)
(***************************************************************************)
EXTENDS Integers, Sequences, FiniteSets, TLC

VARIABLES
    adapter,    \* the class of the adapter instance under study
    inputs,     \* self.inputs: the ParameterSet (a Bunch), name -> value
    opt_map,    \* the class attribute opt_map of the instance's class
    env,        \* os.environ['FSLOUTPUTTYPE'] ("" when not set)
    fslout,     \* what the last fsloutputtype() call returned or raised
    pc,         \* position of the current call in the run protocol
    entry,      \* entry point of the current call: "run", "applyxfm", "cmdline"
    calls,      \* number of entry-point calls made so far on this instance
    allargs,    \* the argument vector built by the last _parse_inputs
    warnings,   \* the warnings that _parse_inputs reported (warn(...))
    rc,         \* results.runtime.returncode of the current call (-1: none)
    spawns,     \* how many times the current call ran the external process
    fs,         \* the file system as glob() sees it after the process ran
    predicted,  \* the outputs Bunch as filled by aggregate_outputs
    outcome,    \* how the current call ended, and what the caller received
    trace,      \* the protocol steps the current call has taken, in order
    callerOut,  \* history: the caller itself gave an output path
    childEnv,   \* FSLOUTPUTTYPE as the process of the call under way was
                \* given it ("" when no process of the call has run)
    locals      \* the locals envext and item count of an aggregate_outputs
                \* that is under way step by step

vars == << adapter, inputs, opt_map, env, fslout, pc, entry, calls, allargs,
           warnings, rc, spawns, fs, predicted, outcome, trace, callerOut,
           childEnv, locals >>

-----------------------------------------------------------------------------
(* Bounds of the exploration.                                              *)

\* longest list value given to a parameter
MaxLen == 3
\* how many parameters of a ParameterSet are assigned at once in SpecParse
MaxSet == 2
\* how many entry-point calls are made on the adapter instance
MaxCalls == 2
\* how many paths are absent from (and how many ambiguous in) the file system
MaxOdd == 1

-----------------------------------------------------------------------------
(* Python values.                                                          *)

EmptyStr == [dir |-> "", segs |-> << >>]

NoneV == [t |-> "none", b |-> FALSE, n |-> 0, s |-> EmptyStr, l |-> << >>]
VBool(x) == [NoneV EXCEPT !.t = "bool", !.b = x]
VInt(x) == [NoneV EXCEPT !.t = "int", !.n = x]
VStr(x) == [NoneV EXCEPT !.t = "str", !.s = x]
VList(x) == [NoneV EXCEPT !.t = "list", !.l = x]

\* a file name "a.nii" in directory d ("" for none)
File(d, segs) == VStr([dir |-> d, segs |-> segs])
\* a plain word such as 'yes' or '-v'
Word(w) == File("", << w >>)

\* Python truth value, as tested by "if x:" and "if not x:"
Truthy(v) ==
    CASE v.t = "none" -> FALSE
      [] v.t = "bool" -> v.b
      [] v.t = "int" -> v.n # 0
      [] v.t = "str" -> v.s # EmptyStr
      [] v.t = "list" -> Len(v.l) > 0

IsNumber(v) == v.t \in {"int", "bool"}

\* the list [1, 2, ..., k]
Count(k) == VList([i \in 1..k |-> VInt(i)])

-----------------------------------------------------------------------------
(* Strings that name files: os.path and nipype.utils.filemanip.            *)

\* os.path.split(p)[0] and [1]
os_path_dir(p) == p.dir
os_path_name(p) == [dir |-> "", segs |-> p.segs]

\* os.path.splitext(p): the root, and the extension as the segments after
\* the last dot (none when the name has no dot)
splitext_root(p) ==
    IF Len(p.segs) > 1
    THEN [dir |-> p.dir, segs |-> SubSeq(p.segs, 1, Len(p.segs) - 1)]
    ELSE p
splitext_ext(p) ==
    IF Len(p.segs) > 1 THEN << p.segs[Len(p.segs)] >> ELSE << >>

\* root + suffix: the suffix is appended to the text of the last segment
AddSuffix(p, suffix) ==
    IF Len(p.segs) = 0
    THEN [dir |-> p.dir, segs |-> << suffix >>]
    ELSE [p EXCEPT !.segs[Len(p.segs)] = @ \o suffix]

\* name + '.%s' % ext, where ext itself may hold a dot ('nii.gz')
AddExt(p, ext) == [p EXCEPT !.segs = @ \o ext]

\* a + b for a directory text a and a string b (no separator is added)
PlainConcat(a, b) ==
    IF b.dir # "" THEN [dir |-> a \o b.dir, segs |-> b.segs]
    ELSE IF Len(b.segs) = 0 THEN [dir |-> "", segs |-> << a >>]
    ELSE [dir |-> "", segs |-> << a \o b.segs[1] >> \o Tail(b.segs)]

\* os.path.join(pth, name)
os_path_join(pth, p) == IF p.dir # "" THEN p ELSE [p EXCEPT !.dir = pth]

\* nipype.utils.filemanip.fname_presuffix(fname, suffix=..., newpath=...):
\* the suffix goes before the extension; newpath, if given, replaces the
\* directory
fname_presuffix(fname, suffix, newpath) ==
    LET root == splitext_root(os_path_name(fname))
        ext == splitext_ext(os_path_name(fname))
        pth == IF newpath # "" THEN newpath ELSE fname.dir
    IN  [dir |-> pth, segs |-> AddSuffix(root, suffix).segs \o ext]

-----------------------------------------------------------------------------
(* The output-format registry: fsloutputtype and its table ftypes.         *)

FTypeNames ==
    {"NIFTI", "ANALYZE", "NIFTI_PAIR", "ANALYZE_GZ", "NIFTI_GZ",
     "NIFTI_PAIR_GZ"}

\* the entry of ftypes for the key None
NotSetMessage == << "env variable FSLOUTPUTTYPE not set" >>

ftypes_uncompressed(key) ==
    CASE key \in {"NIFTI", "NIFTI_GZ"} -> << "nii" >>
      [] key \in {"ANALYZE", "NIFTI_PAIR", "ANALYZE_GZ", "NIFTI_PAIR_GZ"} -> << "hdr" >>
      [] key = "" -> NotSetMessage

\* ftypes[key]; the key None is the empty text here
ftypes(key) ==
    CASE key = "NIFTI" -> << "nii" >>
      [] key = "ANALYZE" -> << "hdr" >>
      [] key = "NIFTI_PAIR" -> << "hdr" >>
      [] key = "ANALYZE_GZ" -> << "hdr", "gz" >>
      [] key = "NIFTI_GZ" -> << "nii", "gz" >>
      [] key = "NIFTI_PAIR_GZ" -> << "hdr", "gz" >>
      [] key = "" -> NotSetMessage

\* the keys of ftypes
InFTypes(key) == key \in FTypeNames \cup {""}

\* fsloutputtype(ftype) as a function of the environment e it runs in:
\* the environment it leaves, and what it returns (or that it raised
\* KeyError at ftypes[fsl_ftype], which is after the environment is set).
\* ftype "" is the call with ftype=None (the query).
fsloutputtype_env(ftype, e) == IF ftype = "" THEN e ELSE ftype

fsloutputtype_ret(ftype, e) ==
    LET fsl_ftype == fsloutputtype_env(ftype, e)
    IN  IF InFTypes(fsl_ftype)
        THEN [raised |-> FALSE, ftype |-> fsl_ftype, ext |-> ftypes(fsl_ftype)]
        ELSE [raised |-> TRUE, ftype |-> fsl_ftype, ext |-> << >>]

-----------------------------------------------------------------------------
(* The option tables and the parameter sets of the five adapters.          *)

Adapters == {"Bet", "Fast", "Flirt", "McFlirt", "Fnirt"}

\* Bet.opt_map
Bet_opt_map ==
    [outline |-> << "-o" >>, mask |-> << "-m" >>, skull |-> << "-s" >>,
     nooutput |-> << "-n" >>, frac |-> << "-f", "%.2f" >>,
     vertical_gradient |-> << "-g", "%.2f" >>, radius |-> << "-r", "%d" >>,
     center |-> << "-c", "%d", "%d", "%d" >>, threshold |-> << "-t" >>,
     mesh |-> << "-e" >>, verbose |-> << "-v" >>, flags |-> << "%s" >>]

\* Bet._populate_inputs
Bet_populate_inputs ==
    << "infile", "outfile", "outline", "mask", "skull", "nooutput", "frac",
       "vertical_gradient", "radius", "center", "threshold", "mesh",
       "verbose", "flags" >>

\* Fast.opt_map
Fast_opt_map ==
    [number_classes |-> << "-n", "%d" >>, bias_iters |-> << "-I", "%d" >>,
     bias_lowpass |-> << "-l", "%d" >>, img_type |-> << "-t", "%d" >>,
     init_seg_smooth |-> << "-f", "%.3f" >>, segments |-> << "-g" >>,
     init_transform |-> << "-a", "%s" >>,
     other_priors |-> << "-A", "%s", "%s", "%s" >>,
     nopve |-> << "--nopve" >>, output_biasfield |-> << "-b" >>,
     output_biascorrected |-> << "-B" >>, nobias |-> << "-N" >>,
     n_inputimages |-> << "-S", "%d" >>, out_basename |-> << "-o", "%s" >>,
     use_priors |-> << "-P" >>, segment_iters |-> << "-W", "%d" >>,
     mixel_smooth |-> << "-R", "%.2f" >>,
     iters_afterbias |-> << "-O", "%d" >>, hyper |-> << "-H", "%.2f" >>,
     verbose |-> << "-v" >>, manualseg |-> << "-s", "%s" >>,
     probability_maps |-> << "-p" >>]

\* Fast._populate_inputs
Fast_populate_inputs ==
    << "infiles", "number_classes", "bias_iters", "bias_lowpass", "img_type",
       "init_seg_smooth", "segments", "init_transform", "other_priors",
       "nopve", "output_biasfield", "output_biascorrected", "nobias",
       "n_inputimages", "out_basename", "use_priors", "segment_iters",
       "mixel_smooth", "iters_afterbias", "hyper", "verbose", "manualseg",
       "probability_maps", "flags" >>

\* Flirt.opt_map
Flirt_opt_map ==
    [datatype |-> << "-datatype", "%d" >>, cost |-> << "-cost", "%s" >>,
     searchcost |-> << "-searchcost", "%s" >>,
     usesqform |-> << "-usesqform" >>, displayinit |-> << "-displayinit" >>,
     anglerep |-> << "-anglerep", "%s" >>, interp |-> << "-interp" >>,
     sincwidth |-> << "-sincwidth", "%d" >>,
     sincwindow |-> << "-sincwindow", "%s" >>, bins |-> << "-bins", "%d" >>,
     dof |-> << "-dof", "%d" >>, noresample |-> << "-noresample" >>,
     forcescaling |-> << "-forcescaling" >>,
     minsampling |-> << "-minsamplig", "%f" >>,
     paddingsize |-> << "-paddingsize", "%d" >>,
     searchrx |-> << "-searchrx", "%d", "%d" >>,
     searchry |-> << "-searchry", "%d", "%d" >>,
     searchrz |-> << "-searchrz", "%d", "%d" >>,
     nosearch |-> << "-nosearch" >>,
     coarsesearch |-> << "-coarsesearch", "%d" >>,
     finesearch |-> << "-finesearch", "%d" >>,
     refweight |-> << "-refweight", "%s" >>,
     inweight |-> << "-inweight", "%s" >>, noclamp |-> << "-noclamp" >>,
     noresampblur |-> << "-noresampblur" >>, rigid2D |-> << "-2D" >>,
     verbose |-> << "-v", "%d" >>, flags |-> << "%s" >>]

\* Flirt._populate_inputs
Flirt_populate_inputs ==
    << "infile", "outfile", "reference", "outmatrix", "inmatrix", "datatype",
       "cost", "searchcost", "usesqform", "displayinit", "anglerep",
       "interp", "sincwidth", "sincwindow", "bins", "dof", "noresample",
       "forcescaling", "minsampling", "applyisoxfm", "paddingsize",
       "searchrx", "searchry", "searchrz", "nosearch", "coarsesearch",
       "finesearch", "refweight", "inweight", "noclamp", "noresampblur",
       "rigid2D", "verbose", "flags" >>

\* McFlirt.opt_map
McFlirt_opt_map ==
    [outfile |-> << "-out", "%s" >>, cost |-> << "-cost", "%s" >>,
     bins |-> << "-bins", "%d" >>, dof |-> << "-dof", "%d" >>,
     refvol |-> << "-refvol", "%d" >>, scaling |-> << "-scaling", "%.2f" >>,
     smooth |-> << "-smooth", "%.2f" >>,
     rotation |-> << "-rotation", "%d" >>, verbose |-> << "-verbose" >>,
     stages |-> << "-stages", "%d" >>, init |-> << "-init", "%s" >>,
     usegradient |-> << "-gdt" >>, usecontour |-> << "-edge" >>,
     meanvol |-> << "-meanvol" >>, statsimgs |-> << "-stats" >>,
     savemats |-> << "-mats" >>, saveplots |-> << "-plots" >>,
     report |-> << "-report" >>]

\* McFlirt._populate_inputs
McFlirt_populate_inputs ==
    << "infile", "outfile", "cost", "bins", "dof", "refvol", "scaling",
       "smooth", "rotation", "verbose", "stages", "init", "usegradient",
       "usecontour", "meanvol", "statsimgs", "savemats", "saveplots", "report" >>

\* Fnirt.opt_map
Fnirt_opt_map ==
    [affine |-> << "--aff", "%s" >>, initwarp |-> << "--inwarp", "%s" >>,
     initintensity |-> << "--intin", "%s" >>,
     configfile |-> << "--config", "%s" >>,
     referencemask |-> << "--refmask", "%s" >>,
     imagemask |-> << "--inmask", "%s" >>,
     fieldcoeff_file |-> << "--cout", "%s" >>,
     outimage |-> << "--iout", "%s" >>, fieldfile |-> << "--fout", "%s" >>,
     jacobianfile |-> << "--jout", "%s" >>,
     reffile |-> << "--refout", "%s" >>,
     intensityfile |-> << "--intout", "%s" >>,
     logfile |-> << "--logout", "%s" >>, verbose |-> << "--verbose" >>,
     sub_sampling |-> << "--subsamp", "%d" >>,
     max_iter |-> << "--miter", "%f" >>,
     referencefwhm |-> << "--reffwhm", "%f" >>,
     imgfwhm |-> << "--infwhm", "%f" >>, lambdas |-> << "--lambda", "%f" >>,
     estintensity |-> << "--estint", "%f" >>,
     applyrefmask |-> << "--applyrefmask", "%f" >>,
     applyimgmask |-> << "--applyinmask", "%f" >>, flags |-> << "%s" >>]

\* Fnirt._populate_inputs
Fnirt_populate_inputs ==
    << "infile", "reference", "affine", "initwarp", "initintensity",
       "configfile", "referencemask", "imagemask", "fieldcoeff_file",
       "outimage", "fieldfile", "jacobianfile", "reffile", "intensityfile",
       "logfile", "verbose", "sub_sampling", "max_iter", "referencefwhm",
       "imgfwhm", "lambdas", "estintensity", "applyrefmask", "applyimgmask" >>

\* the class attribute opt_map of each adapter class, as the class defines it
ClassOptMap(ad) ==
    CASE ad = "Bet" -> Bet_opt_map
      [] ad = "Fast" -> Fast_opt_map
      [] ad = "Flirt" -> Flirt_opt_map
      [] ad = "McFlirt" -> McFlirt_opt_map
      [] ad = "Fnirt" -> Fnirt_opt_map

\* the names self.inputs holds after construction, in the order written
PopulateInputs(ad) ==
    CASE ad = "Bet" -> Bet_populate_inputs
      [] ad = "Fast" -> Fast_populate_inputs
      [] ad = "Flirt" -> Flirt_populate_inputs
      [] ad = "McFlirt" -> McFlirt_populate_inputs
      [] ad = "Fnirt" -> Fnirt_populate_inputs

Range(seq) == {seq[i] : i \in DOMAIN seq}

\* self.inputs after _populate_inputs: every name is None
EmptyInputs(ad) == [name \in Range(PopulateInputs(ad)) |-> NoneV]

\* names that self.inputs.update(**inputs) may add to the populated ones
ExtraOrder == << "args", "bogus", "cwd", "flags", "out_basename", "stats" >>

\* self.inputs.update(**kw)
BunchUpdate(inp, kw) ==
    [name \in DOMAIN inp \cup DOMAIN kw |->
        IF name \in DOMAIN kw THEN kw[name] ELSE inp[name]]

\* self.inputs.get(name, default)
BunchGet(inp, name, default) ==
    IF name \in DOMAIN inp THEN inp[name] ELSE default

\* the order in which self.inputs.iteritems() yields the names: the
\* populated names, then the added ones
IterOrder(ad, inp) ==
    LET added(n) == n \in DOMAIN inp /\ n \notin Range(PopulateInputs(ad))
    IN  PopulateInputs(ad) \o SelectSeq(ExtraOrder, added)

-----------------------------------------------------------------------------
(* The option map engine: FSLCommand._parse_inputs.                        *)

\* the conversions that occur in the opt_map templates
Placeholders == {"%s", "%d", "%f", "%.2f", "%.3f"}
IsPlaceholder(w) == w \in Placeholders

\* the number of conversions in a template
NPlaceholders(argstr) == Len(SelectSeq(argstr, IsPlaceholder))

\* argstr.find('%') == -1
NoFormat(argstr) == NPlaceholders(argstr) = 0

\* the pieces of a formatted token: text of the template, or a converted value
Lit(w) == [lit |-> w, conv |-> "", val |-> NoneV]
Fmt(c, v) == [lit |-> "", conv |-> c, val |-> v]
\* a value placed in the argument vector as it is
Raw(v) == [lit |-> "", conv |-> "raw", val |-> v]

\* a token of the argument vector, with the parameter it came from
Token(opt, pieces) == [opt |-> opt, pieces |-> pieces]

\* whether the conversion c accepts v: %s takes anything (str(v)), the
\* numeric conversions raise TypeError unless v is a number
ConvOK(c, v) == c = "%s" \/ IsNumber(v)

\* what the conversion makes of v: the numeric ones turn a bool into 0 or 1
Coerce(c, v) ==
    IF c # "%s" /\ v.t = "bool" THEN VInt(IF v.b THEN 1 ELSE 0) ELSE v

\* whether argstr % tuple(values) succeeds: as many values as conversions,
\* each accepted by its conversion (else TypeError)
FormatOK(argstr, values) ==
    /\ Len(values) = NPlaceholders(argstr)
    /\ \A i \in DOMAIN values :
           ConvOK(SelectSeq(argstr, IsPlaceholder)[i], values[i])

FormatPieces_reversed(argstr, values) ==
    [j \in DOMAIN argstr |->
        IF IsPlaceholder(argstr[j])
        THEN LET i == Len(SelectSeq(SubSeq(argstr, 1, j), IsPlaceholder))
                 k == Len(values) + 1 - i
             IN  Fmt(argstr[j],
                     IF k \in DOMAIN values
                     THEN Coerce(argstr[j], values[k]) ELSE NoneV)
        ELSE Lit(argstr[j])]

\* argstr % tuple(values): the i-th conversion takes the i-th value
FormatPieces(argstr, values) ==
    [j \in DOMAIN argstr |->
        IF IsPlaceholder(argstr[j])
        THEN LET i == Len(SelectSeq(SubSeq(argstr, 1, j), IsPlaceholder))
             IN  Fmt(argstr[j],
                     IF i \in DOMAIN values
                     THEN Coerce(argstr[j], values[i]) ELSE NoneV)
        ELSE Lit(argstr[j])]

IsTrue_truthy(value) == Truthy(value)

\* value is True
IsTrue(value) == value.t = "bool" /\ value.b

\* value is not False
IsNotFalse(value) == ~(value.t = "bool" /\ ~value.b)

\* the state of one _parse_inputs run: allargs, the warnings given, and
\* whether an exception left the method
NoArgs == [args |-> << >>, warns |-> << >>, raised |-> ""]

Appended(acc, tok) == [acc EXCEPT !.args = Append(@, tok)]

Warned_failfast(acc, kind, opt) == [acc EXCEPT !.raised = kind]

\* the except clauses: the error is reported with warn() and the loop goes on
Warned(acc, kind, opt) ==
    [acc EXCEPT !.warns = Append(@, [kind |-> kind, opt |-> opt])]

\* allargs.extend(value) for the 'args' input: a list adds its items, a
\* string adds its characters (kept as one piece marked "chars"), anything
\* else raises TypeError, which nothing catches
ExtendArgs(acc, value) ==
    CASE value.t = "list" ->
           [acc EXCEPT !.args =
               @ \o [i \in DOMAIN value.l |-> Token("args", << Raw(value.l[i]) >>)]]
      [] value.t = "str" ->
           Appended(acc, Token("args", << [Raw(value) EXCEPT !.conv = "chars"] >>))
      [] OTHER -> [acc EXCEPT !.raised = "TypeError"]

\* the body of the loop for one (opt, value) of self.inputs
ParseOne(om, skip, acc, opt, value) ==
    IF acc.raised # "" \/ value.t = "none" \/ opt \in skip THEN acc
    ELSE IF opt = "args" THEN ExtendArgs(acc, value)
    ELSE IF opt \notin DOMAIN om THEN Warned(acc, "KeyError", opt)
    ELSE LET argstr == om[opt]
         IN  IF NoFormat(argstr)
             THEN IF IsTrue(value)
                  THEN Appended(acc, Token(opt, FormatPieces(argstr, << >>)))
                  ELSE IF IsNotFalse(value)
                       THEN Warned(acc, "TypeError", opt)
                       ELSE acc
             ELSE LET values == IF value.t = "list" THEN value.l ELSE << value >>
                  IN  IF FormatOK(argstr, values)
                      THEN Appended(acc, Token(opt, FormatPieces(argstr, values)))
                      ELSE Warned(acc, "TypeError", opt)

\* two stretches of the loop, one after the other: an exception in the
\* first ends the method
Then(first, second) ==
    IF first.raised # "" THEN first
    ELSE [args |-> first.args \o second.args,
          warns |-> first.warns \o second.warns,
          raised |-> second.raised]

\* the loop over the items lo..hi of self.inputs.iteritems()
RECURSIVE ParseRange(_, _, _, _, _, _)
ParseRange(om, skip, inp, order, lo, hi) ==
    IF lo > hi THEN NoArgs
    ELSE IF lo = hi
    THEN ParseOne(om, skip, NoArgs, order[lo], inp[order[lo]])
    ELSE Then(ParseRange(om, skip, inp, order, lo, (lo + hi) \div 2),
              ParseRange(om, skip, inp, order, (lo + hi) \div 2 + 1, hi))

\* FSLCommand._parse_inputs(skip) of an adapter ad whose self.inputs is inp
\* and whose opt_map is om
FSLCommand_parse_inputs(ad, om, inp, skip) ==
    ParseRange(om, skip, inp, IterOrder(ad, inp), 1, Len(IterOrder(ad, inp)))

-----------------------------------------------------------------------------
(* Command assembly: each adapter's _parse_inputs, and cmdline.            *)

\* list.insert(i, x), i counted from 0; past the end it appends
InsertAt(seq, i, x) ==
    LET k == IF i < Len(seq) THEN i ELSE Len(seq)
    IN  SubSeq(seq, 1, k) \o << x >> \o SubSeq(seq, k + 1, Len(seq))

\* what a _parse_inputs leaves: the engine's state and self.inputs
Parsed(acc, inp) ==
    [args |-> acc.args, warns |-> acc.warns, raised |-> acc.raised,
     inputs |-> inp]

\* the directory text of a value given as 'cwd'
AsDir(v) == IF v.t = "str" /\ Len(v.s.segs) > 0 THEN v.s.segs[1] ELSE ""

\* the output path Bet derives: the input's file name with '_bet' before
\* the extension, in the directory inputs.get('cwd', pth)
BetDerivedOutfile(inp) ==
    LET pth == os_path_dir(inp["infile"].s)
        fname == os_path_name(inp["infile"].s)
        newpath == IF "cwd" \in DOMAIN inp THEN AsDir(inp["cwd"]) ELSE pth
    IN  VStr(fname_presuffix(fname, "_bet", newpath))

\* the skip argument each adapter's _parse_inputs gives to the engine;
\* skip=('infiles') and skip=('infile') are strings, so "opt in skip" holds
\* for the names that are part of the word: of the adapter's names, that
\* one only
Skip(ad) ==
    CASE ad = "Bet" -> {"infile", "outfile"}
      [] ad = "Fast" -> {"infiles"}
      [] ad = "Flirt" -> {"infile", "outfile", "reference", "outmatrix", "inmatrix"}
      [] ad = "McFlirt" -> {"infile"}
      [] ad = "Fnirt" -> {"infile", "reference"}

Bet_outfile_after_always(inp) ==
    IF Truthy(inp["infile"]) THEN BetDerivedOutfile(inp) ELSE inp["outfile"]

\* self.inputs.outfile as Bet._parse_inputs leaves it: derived, and stored,
\* when the input is given and no output is stored
Bet_outfile_after(inp) ==
    IF Truthy(inp["infile"]) /\ ~Truthy(inp["outfile"])
    THEN BetDerivedOutfile(inp)
    ELSE inp["outfile"]

\* Bet._parse_inputs
Bet_parse_inputs(om, inp) ==
    LET acc == FSLCommand_parse_inputs("Bet", om, inp, Skip("Bet"))
        inp2 == [inp EXCEPT !["outfile"] = Bet_outfile_after(inp)]
        a1 == IF Truthy(inp["infile"])
              THEN InsertAt(acc.args, 0, Token("infile", << Raw(inp["infile"]) >>))
              ELSE acc.args
        a2 == IF Truthy(inp2["outfile"])
              THEN InsertAt(a1, 1, Token("outfile", << Raw(inp2["outfile"]) >>))
              ELSE a1
    IN  IF acc.raised # "" THEN Parsed(acc, inp)
        ELSE Parsed([acc EXCEPT !.args = a2], inp2)

\* Fast._parse_inputs
Fast_parse_inputs(om, inp) ==
    LET acc == FSLCommand_parse_inputs("Fast", om, inp, Skip("Fast"))
        a1 == IF Truthy(inp["infiles"])
              THEN Append(acc.args,
                          Token("infiles", << [Raw(inp["infiles"]) EXCEPT !.conv = "join"] >>))
              ELSE acc.args
    IN  IF acc.raised # "" THEN Parsed(acc, inp)
        ELSE Parsed([acc EXCEPT !.args = a1], inp)

\* possibleinputs of Flirt._parse_inputs, in the order of the list
Flirt_possibleinputs ==
    << << "outfile", "-out" >>, << "inmatrix", "-init" >>,
       << "outmatrix", "-omat" >>, << "reference", "-ref" >>,
       << "infile", "-in" >> >>

\* possibleinputs of Fnirt._parse_inputs
Fnirt_possibleinputs ==
    << << "reference", "--ref=" >>, << "infile", "--in=" >> >>

\* for val, flag in possibleinputs: if val: allargs.insert(0, flag + val)
RECURSIVE InsertPossible(_, _, _, _)
InsertPossible(args, inp, possible, i) ==
    IF i = 0 THEN args
    ELSE LET before == InsertPossible(args, inp, possible, i - 1)
             name == possible[i][1]
         IN  IF Truthy(inp[name])
             THEN InsertAt(before, 0,
                           Token(name, << Lit(possible[i][2]), Fmt("%s", inp[name]) >>))
             ELSE before

\* Flirt._parse_inputs
Flirt_parse_inputs(om, inp) ==
    LET acc == FSLCommand_parse_inputs("Flirt", om, inp, Skip("Flirt"))
    IN  IF acc.raised # "" THEN Parsed(acc, inp)
        ELSE Parsed([acc EXCEPT !.args =
                        InsertPossible(@, inp, Flirt_possibleinputs,
                                       Len(Flirt_possibleinputs))], inp)

\* McFlirt._parse_inputs
McFlirt_parse_inputs(om, inp) ==
    LET acc == FSLCommand_parse_inputs("McFlirt", om, inp, Skip("McFlirt"))
        a1 == IF Truthy(inp["infile"])
              THEN InsertAt(acc.args, 0,
                            Token("infile", << Lit("-in"), Fmt("%s", inp["infile"]) >>))
              ELSE acc.args
    IN  IF acc.raised # "" THEN Parsed(acc, inp)
        ELSE Parsed([acc EXCEPT !.args = a1], inp)

\* Fnirt._parse_inputs
Fnirt_parse_inputs(om, inp) ==
    LET acc == FSLCommand_parse_inputs("Fnirt", om, inp, Skip("Fnirt"))
    IN  IF acc.raised # "" THEN Parsed(acc, inp)
        ELSE Parsed([acc EXCEPT !.args =
                        InsertPossible(@, inp, Fnirt_possibleinputs,
                                       Len(Fnirt_possibleinputs))], inp)

\* itemstoupdate of Fnirt.update_optmap
Fnirt_itemstoupdate ==
    << "sub_sampling", "max_iter", "referencefwhm", "imgfwhm", "lambdas",
       "estintensity", "applyrefmask", "applyimgmask" >>

\* len(text) of a string value
RECURSIVE SegsLen(_)
SegsLen(segs) ==
    IF Len(segs) = 0 THEN 0
    ELSE Len(Head(segs)) + (IF Len(segs) > 1 THEN 1 ELSE 0) + SegsLen(Tail(segs))
StrLen(p) == (IF p.dir = "" THEN 0 ELSE Len(p.dir) + 1) + SegsLen(p.segs)

Fnirt_valstr_growing(argstr, values) ==
    LET n == CASE values.t = "list" -> Len(values.l)
               [] values.t = "str" -> StrLen(values.s)
               [] OTHER -> 1
    IN  << argstr[1] >> \o [i \in 1..(n + Len(argstr) - 2) |-> argstr[2]]

\* opt[0] + ' %s' % (opt[1]) * len(values), and the same once when
\* len(values) raises TypeError (values is no list and no string)
Fnirt_valstr(argstr, values) ==
    LET n == CASE values.t = "list" -> Len(values.l)
               [] values.t = "str" -> StrLen(values.s)
               [] OTHER -> 1
    IN  << argstr[1] >> \o [i \in 1..n |-> argstr[2]]

\* Fnirt.update_optmap: the templates of the items that are set (and
\* truthy) are rewritten in the class's opt_map
Fnirt_update_optmap(om, inp) ==
    [opt \in DOMAIN om |->
        IF opt \in Range(Fnirt_itemstoupdate) /\ Truthy(BunchGet(inp, opt, NoneV))
        THEN Fnirt_valstr(om[opt], inp[opt])
        ELSE om[opt]]

\* self.cmd
Cmd(ad) ==
    CASE ad = "Bet" -> "bet"
      [] ad = "Fast" -> "fast"
      [] ad = "Flirt" -> "flirt"
      [] ad = "McFlirt" -> "mcflirt"
      [] ad = "Fnirt" -> "fnirt"

\* the opt_map that the cmdline property leaves: Fnirt's cmdline calls
\* update_optmap first
OptMapAfterCmdline(ad, om, inp) ==
    IF ad = "Fnirt" THEN Fnirt_update_optmap(om, inp) ELSE om

\* self._parse_inputs() of the adapter class
Adapter_parse_inputs(ad, om, inp) ==
    CASE ad = "Bet" -> Bet_parse_inputs(om, inp)
      [] ad = "Fast" -> Fast_parse_inputs(om, inp)
      [] ad = "Flirt" -> Flirt_parse_inputs(om, inp)
      [] ad = "McFlirt" -> McFlirt_parse_inputs(om, inp)
      [] ad = "Fnirt" -> Fnirt_parse_inputs(om, inp)

\* the cmdline property after update_optmap: _parse_inputs with the
\* opt_map as it is, then the command name in front
CmdlineParsed(ad, om, inp) ==
    LET p == Adapter_parse_inputs(ad, om, inp)
    IN  IF p.raised # "" THEN p
        ELSE [p EXCEPT !.args = InsertAt(@, 0, Token("cmd", << Lit(Cmd(ad)) >>))]

\* the cmdline property: update_optmap where the adapter has one, then
\* _parse_inputs, then the command name in front
Cmdline(ad, om, inp) == CmdlineParsed(ad, OptMapAfterCmdline(ad, om, inp), inp)

-----------------------------------------------------------------------------
(* The file system as glob() sees it.                                      *)

\* len(glob(path)): the paths in fs.zero match no file, those in fs.multi
\* match several, every other path matches exactly one
GlobCount(f, path) ==
    IF path \in f.multi THEN 2 ELSE IF path \in f.zero THEN 0 ELSE 1

GlobIsOne_atleast(f, path) == GlobCount(f, path) >= 1

\* len(glob(path)) == 1
GlobIsOne(f, path) == GlobCount(f, path) = 1

\* glob(path) is not empty
GlobAny(f, path) == GlobCount(f, path) >= 1

-----------------------------------------------------------------------------
(* Output prediction: the first part of each aggregate_outputs.  A role    *)
(* holds a sequence of paths; the empty sequence is None (or []).          *)

\* what a prediction leaves: the outputs Bunch, and the exception that
\* ended it ("" for none)
Pred(outputs, raised) == [outputs |-> outputs, raised |-> raised]

NoOutputs == << >>

Bet_outputs == [outfile |-> << >>, maskfile |-> << >>]

Fast_outputs ==
    [mixeltype |-> << >>, seg |-> << >>, partial_volume_map |-> << >>,
     partial_volume_files |-> << >>, tissue_class_map |-> << >>,
     tissue_class_files |-> << >>, bias_corrected |-> << >>,
     bias_field |-> << >>, prob_maps |-> << >>]

Flirt_outputs == [outfile |-> << >>, outmatrix |-> << >>]

McFlirt_outputs ==
    [outfile |-> << >>, varianceimg |-> << >>, stdimg |-> << >>,
     meanimg |-> << >>, parfile |-> << >>, outmatfile |-> << >>]

Fnirt_outputs ==
    [coefficientsfile |-> << >>, warpedimage |-> << >>, warpfield |-> << >>,
     jacobianfield |-> << >>, modulatedreference |-> << >>,
     intensitymodulation |-> << >>, logfile |-> << >>]

\* the path Bet.aggregate_outputs expects the output volume at
Bet_predict(inp) ==
    LET pth == os_path_dir(inp["infile"].s)
        fname == os_path_name(inp["infile"].s)
        newpath == IF "cwd" \in DOMAIN inp THEN AsDir(inp["cwd"]) ELSE pth
        outfile == IF Truthy(inp["outfile"]) THEN inp["outfile"].s
                   ELSE os_path_join(newpath, fname_presuffix(fname, "_bet", ""))
    IN  Pred([Bet_outputs EXCEPT !.outfile = << outfile >>], "")

\* the path of the mask that goes with the output volume
Bet_maskfile(outfile) == fname_presuffix(outfile, "_mask", "")

\* outputs.<role>.append(path); a role the Bunch does not have raises
\* AttributeError
AppendRole(pr, role, path) ==
    IF pr.raised # "" THEN pr
    ELSE IF role \notin DOMAIN pr.outputs THEN Pred(pr.outputs, "AttributeError")
    ELSE Pred([pr.outputs EXCEPT ![role] = Append(@, path)], "")

\* for i in range(n): outputs.<role>.append(fname_presuffix(item, suffix_i))
RECURSIVE AppendPerClass(_, _, _, _, _)
AppendPerClass(pr, role, item, suffix, n) ==
    IF n = 0 THEN pr
    ELSE AppendRole(AppendPerClass(pr, role, item, suffix, n - 1), role,
                    fname_presuffix(item, suffix \o ToString(n - 1), ""))

\* the class count used when number_classes is not set
DefaultClasses == 3

Fast_nclasses_noDefault(inp) ==
    IF Truthy(inp["number_classes"]) THEN inp["number_classes"].n ELSE 0

\* nclasses of Fast.aggregate_outputs
Fast_nclasses(inp) ==
    IF ~Truthy(inp["number_classes"]) THEN DefaultClasses
    ELSE inp["number_classes"].n

\* the base name of one input file, with the registry's extension
Fast_item(inp, item, envext) ==
    IF Truthy(inp["out_basename"])
    THEN AddExt(PlainConcat(os_path_dir(item), inp["out_basename"].s), envext)
    ELSE AddExt(splitext_root(item), envext)

\* the body of the loop over infiles in Fast.aggregate_outputs
Fast_predict_item(pr, inp, file, envext) ==
    LET item == Fast_item(inp, file, envext)
        n == Fast_nclasses(inp)
        p1 == AppendRole(pr, "seg", fname_presuffix(item, "_seg", ""))
        p2 == IF Truthy(inp["segments"])
              THEN AppendPerClass(p1, "seg", item, "_seg_", n) ELSE p1
        p3 == IF ~Truthy(inp["nopve"])
              THEN AppendPerClass(
                       AppendRole(
                           AppendRole(p2, "partial_volume_map",
                                      fname_presuffix(item, "_pveseg", "")),
                           "mixeltype", fname_presuffix(item, "_mixeltype", "")),
                       "partial_volume_files", item, "_pve_", n)
              ELSE p2
        p4 == IF Truthy(inp["output_biasfield"])
              THEN AppendRole(p3, "bias_field", fname_presuffix(item, "_bias", ""))
              ELSE p3
        p5 == IF Truthy(inp["output_biascorrected"])
              THEN AppendRole(p4, "biascorrected",
                              fname_presuffix(item, "_restore", ""))
              ELSE p4
    IN  IF Truthy(inp["probability_maps"])
        THEN AppendPerClass(p5, "prob_maps", item, "_prob_", n) ELSE p5

\* infiles as a list: a value that is no container is one file
Fast_infiles(inp) ==
    IF inp["infiles"].t = "list" THEN inp["infiles"].l ELSE << inp["infiles"] >>

RECURSIVE Fast_predict_upto(_, _, _, _)
Fast_predict_upto(inp, files, envext, i) ==
    IF i = 0 THEN Pred(Fast_outputs, "")
    ELSE Fast_predict_item(Fast_predict_upto(inp, files, envext, i - 1),
                           inp, files[i].s, envext)

\* Fast.aggregate_outputs up to the check of the files: the registry is
\* read first (fsloutputtype()[1], KeyError for a name not in ftypes)
Fast_predict(inp, e) ==
    LET reg == fsloutputtype_ret("", e)
    IN  IF reg.raised THEN Pred(Fast_outputs, "KeyError")
        ELSE Fast_predict_upto(inp, Fast_infiles(inp), reg.ext,
                               Len(Fast_infiles(inp)))

\* Flirt.aggregate_outputs up to the check of the files
Flirt_predict(inp) ==
    Pred([outfile |-> IF Truthy(inp["outfile"]) THEN << inp["outfile"].s >> ELSE << >>,
          outmatrix |-> IF Truthy(inp["outmatrix"]) THEN << inp["outmatrix"].s >> ELSE << >>],
         "")

\* McFlirt.aggregate_outputs up to the check of the files.  It reads
\* self.inputs.out_basename and self.inputs.stats, which _populate_inputs
\* does not create (AttributeError), and the local item before it is
\* assigned (UnboundLocalError).
McFlirt_predict(inp, e) ==
    LET reg == fsloutputtype_ret("", e)
        item == AddExt(inp["out_basename"].s, reg.ext)
        stem == splitext_root(item)
        o1 == [McFlirt_outputs EXCEPT !.outfile = << item >>]
        o2 == IF Truthy(inp["stats"])
              THEN [o1 EXCEPT !.varianceimg = << fname_presuffix(item, "_variance", "") >>,
                              !.stdimg = << fname_presuffix(item, "_sigma", "") >>,
                              !.meanimg = << fname_presuffix(item, "_meanvol", "") >>]
              ELSE o1
        o3 == IF Truthy(inp["savemats"])
              THEN [o2 EXCEPT !.outmatfile = << AddExt(stem, << "mat" >>) >>]
              ELSE o2
        o4 == IF Truthy(inp["saveplots"])
              THEN [o3 EXCEPT !.parfile = << AddExt(stem, << "par" >>) >>]
              ELSE o3
    IN  IF reg.raised THEN Pred(McFlirt_outputs, "KeyError")
        ELSE IF ~Truthy(inp["outfile"]) THEN Pred(McFlirt_outputs, "UnboundLocalError")
        ELSE IF "out_basename" \notin DOMAIN inp THEN Pred(McFlirt_outputs, "AttributeError")
        ELSE IF inp["out_basename"].t # "str" THEN Pred(McFlirt_outputs, "TypeError")
        ELSE IF "stats" \notin DOMAIN inp THEN Pred(o1, "AttributeError")
        ELSE Pred(o4, "")

\* the input each output role of Fnirt echoes
Fnirt_role_input ==
    [coefficientsfile |-> "fieldcoeff_file", warpedimage |-> "outimage",
     warpfield |-> "fieldfile", jacobianfield |-> "jacobianfile",
     modulatedreference |-> "reffile", intensitymodulation |-> "intensityfile",
     logfile |-> "logfile"]

\* Fnirt.aggregate_outputs up to the check of the files
Fnirt_predict(inp) ==
    Pred([role \in DOMAIN Fnirt_outputs |->
             IF Truthy(inp[Fnirt_role_input[role]])
             THEN << inp[Fnirt_role_input[role]].s >> ELSE << >>],
         "")

\* the prediction part of self.aggregate_outputs() of the adapter class
Adapter_predict(ad, inp, e) ==
    CASE ad = "Bet" -> Bet_predict(inp)
      [] ad = "Fast" -> Fast_predict(inp, e)
      [] ad = "Flirt" -> Flirt_predict(inp)
      [] ad = "McFlirt" -> McFlirt_predict(inp, e)
      [] ad = "Fnirt" -> Fnirt_predict(inp)

\* every (role, path) of an outputs Bunch
Entries(outputs) ==
    UNION {{[role |-> r, path |-> outputs[r][i]] : i \in DOMAIN outputs[r]} :
              r \in DOMAIN outputs}

\* the paths of an outputs Bunch
Paths(outputs) == {en.path : en \in Entries(outputs)}

-----------------------------------------------------------------------------
(* How a call ends, and output verification: the second part of each       *)
(* aggregate_outputs.                                                      *)

NoPath == EmptyStr

\* the call has not ended
NoOutcome ==
    [kind |-> "none", error |-> "", role |-> "", path |-> NoPath,
     returncode |-> -1, outputs |-> NoOutputs]

\* the call returned results: results.runtime.returncode, results.outputs
Returned(code, outputs) ==
    [NoOutcome EXCEPT !.kind = "returned", !.returncode = code,
                      !.outputs = outputs]

\* the call raised error, whose message names role and path (when it does)
Raised(error, role, path) ==
    [NoOutcome EXCEPT !.kind = "raised", !.error = error, !.role = role,
                      !.path = path]

\* Bet: the assert on the output volume, then the mask if glob finds one
Bet_verify(outputs, f) ==
    LET outfile == outputs.outfile[1]
        maskfile == Bet_maskfile(outfile)
    IN  IF ~GlobIsOne(f, outfile)
        THEN {Raised("AssertionError", "outfile", outfile)}
        ELSE {Returned(0, [outputs EXCEPT !.maskfile =
                              IF GlobCount(f, maskfile) > 0
                              THEN << maskfile >> ELSE << >>])}

\* Fast: every path of every role must match exactly one file.  The roles
\* are visited in the order of outputs.iteritems(), which the code does not
\* fix: the error may name any path that fails.
Fast_verify(outputs, f) ==
    LET failing == {en \in Entries(outputs) : ~GlobIsOne(f, en.path)}
    IN  IF failing = {} THEN {Returned(0, outputs)}
        ELSE {Raised("IOError", en.role, en.path) : en \in failing}

Flirt_verify_nomatrix(outputs, f, verify_outmatrix) ==
    IF outputs.outfile = << >> THEN {Raised("TypeError", "outfile", NoPath)}
    ELSE IF ~GlobAny(f, outputs.outfile[1])
    THEN {Raised("IOError", "outfile", outputs.outfile[1])}
    ELSE {Returned(0, outputs)}

\* Flirt: glob(outputs.outfile), then glob(outputs.outmatrix) if
\* verify_outmatrix; glob(None) raises TypeError
Flirt_verify(outputs, f, verify_outmatrix) ==
    IF outputs.outfile = << >> THEN {Raised("TypeError", "outfile", NoPath)}
    ELSE IF ~GlobAny(f, outputs.outfile[1])
    THEN {Raised("IOError", "outfile", outputs.outfile[1])}
    ELSE IF ~verify_outmatrix THEN {Returned(0, outputs)}
    ELSE IF outputs.outmatrix = << >> THEN {Raised("TypeError", "outmatrix", NoPath)}
    ELSE IF ~GlobAny(f, outputs.outmatrix[1])
    THEN {Raised("IOError", "outmatrix", outputs.outmatrix[1])}
    ELSE {Returned(0, outputs)}

\* McFlirt: every role that is set must match a file
McFlirt_verify(outputs, f) ==
    LET failing == {en \in Entries(outputs) : ~GlobAny(f, en.path)}
    IN  IF failing = {} THEN {Returned(0, outputs)}
        ELSE {Raised("IOError", en.role, en.path) : en \in failing}

\* Fnirt: len(glob(file)) < 1 for every role, set or not; glob(None)
\* raises TypeError
Fnirt_verify(outputs, f) ==
    LET unset == {r \in DOMAIN outputs : outputs[r] = << >>}
        failing == {en \in Entries(outputs) : ~GlobAny(f, en.path)}
    IN  IF unset = {} /\ failing = {} THEN {Returned(0, outputs)}
        ELSE {Raised("TypeError", r, NoPath) : r \in unset}
             \cup {Raised("IOError", en.role, en.path) : en \in failing}

\* the ways the verification part of aggregate_outputs can end
Adapter_verify(ad, ep, outputs, f) ==
    CASE ad = "Bet" -> Bet_verify(outputs, f)
      [] ad = "Fast" -> Fast_verify(outputs, f)
      [] ad = "Flirt" -> Flirt_verify(outputs, f, ep # "applyxfm")
      [] ad = "McFlirt" -> McFlirt_verify(outputs, f)
      [] ad = "Fnirt" -> Fnirt_verify(outputs, f)

-----------------------------------------------------------------------------
(* The entry points: what each does to self.inputs before it runs the      *)
(* command, and the check of the mandatory parameters.                     *)

\* what an entry point leaves before self._runner(): self.inputs, and the
\* exception it raised ("" for none)
Entered(inp, raised) == [inputs |-> inp, raised |-> raised]

\* if value: self.inputs.<name> = value
GiveIf(inp, name, value) ==
    IF Truthy(value) THEN [inp EXCEPT ![name] = value] ELSE inp

Missing_never(inp, name) == FALSE

\* if not self.inputs.<name>: raise AttributeError(...)
Missing(inp, name) == ~Truthy(inp[name])

\* Bet.run(infile, outfile, **kw) up to self._runner()
Bet_run(inp, infile, outfile, kw) ==
    LET i1 == GiveIf(inp, "infile", infile)
    IN  IF Missing(i1, "infile") THEN Entered(i1, "AttributeError")
        ELSE Entered(BunchUpdate(GiveIf(i1, "outfile", outfile), kw), "")

\* Fast.run(infiles, **kw) up to self._runner()
Fast_run(inp, infiles, kw) ==
    LET i1 == GiveIf(inp, "infiles", infiles)
    IN  IF Missing(i1, "infiles") THEN Entered(i1, "AttributeError")
        ELSE Entered(BunchUpdate(i1, kw), "")

\* Flirt.run(infile, reference, outfile, outmatrix, **kw) up to self._runner()
Flirt_run(inp, infile, reference, outfile, outmatrix, kw) ==
    LET i1 == GiveIf(inp, "infile", infile)
        i2 == GiveIf(i1, "reference", reference)
    IN  IF Missing(i1, "infile") THEN Entered(i1, "AttributeError")
        ELSE IF Missing(i2, "reference") THEN Entered(i2, "AttributeError")
        ELSE Entered(BunchUpdate(
                         GiveIf(GiveIf(i2, "outfile", outfile), "outmatrix", outmatrix),
                         kw), "")

\* ' '.join([text, word])
JoinWord(text, word) == AddSuffix(text, " " \o word)

\* inputs['flags'] as Flirt.applyxfm sets it in the keywords of the call
Flirt_applyxfm_flags(kw) ==
    IF "flags" \notin DOMAIN kw \/ kw["flags"].t = "none"
    THEN Word("-applyxfm")
    ELSE VStr(JoinWord(kw["flags"].s, "-applyxfm"))

\* Flirt.applyxfm(infile, reference, inmatrix, outfile, **kw) up to
\* self._runner(); the join raises TypeError for flags that are no string
Flirt_applyxfm(inp, infile, reference, inmatrix, outfile, kw) ==
    LET i1 == GiveIf(inp, "infile", infile)
        i2 == GiveIf(i1, "reference", reference)
        i3 == GiveIf(i2, "inmatrix", inmatrix)
        i4 == GiveIf(i3, "outfile", outfile)
    IN  IF Missing(i1, "infile") THEN Entered(i1, "AttributeError")
        ELSE IF Missing(i2, "reference") THEN Entered(i2, "AttributeError")
        ELSE IF Missing(i3, "inmatrix") THEN Entered(i3, "AttributeError")
        ELSE IF "flags" \in DOMAIN kw /\ kw["flags"].t \notin {"none", "str"}
        THEN Entered(i4, "TypeError")
        ELSE Entered(BunchUpdate(i4,
                         BunchUpdate(kw, [flags |-> Flirt_applyxfm_flags(kw)])), "")

\* McFlirt.run(infile, **kw) up to self._runner()
McFlirt_run(inp, infile, kw) ==
    LET i1 == GiveIf(inp, "infile", infile)
    IN  IF Missing(i1, "infile") THEN Entered(i1, "AttributeError")
        ELSE Entered(BunchUpdate(i1, kw), "")

\* Fnirt.run(infile, reference, **kw) up to self._runner()
Fnirt_run(inp, infile, reference, kw) ==
    LET i1 == GiveIf(inp, "infile", infile)
        i2 == GiveIf(i1, "reference", reference)
    IN  IF Missing(i1, "infile") THEN Entered(i1, "AttributeError")
        ELSE IF Missing(i2, "reference") THEN Entered(i2, "AttributeError")
        ELSE Entered(BunchUpdate(i2, kw), "")

\* a call of an entry point: ep, the named arguments (None when not
\* passed) and the keywords
Call(ep, named, kw) == [ep |-> ep, named |-> named, kw |-> kw]

\* the named argument of a call, None when the entry point has none such
Arg(c, name) == IF name \in DOMAIN c.named THEN c.named[name] ELSE NoneV

\* the entry point ep of the adapter class, up to self._runner()
Adapter_enter(ad, inp, c) ==
    CASE ad = "Bet" -> Bet_run(inp, Arg(c, "infile"), Arg(c, "outfile"), c.kw)
      [] ad = "Fast" -> Fast_run(inp, Arg(c, "infiles"), c.kw)
      [] ad = "Flirt" /\ c.ep = "run" ->
           Flirt_run(inp, Arg(c, "infile"), Arg(c, "reference"),
                     Arg(c, "outfile"), Arg(c, "outmatrix"), c.kw)
      [] ad = "Flirt" /\ c.ep = "applyxfm" ->
           Flirt_applyxfm(inp, Arg(c, "infile"), Arg(c, "reference"),
                          Arg(c, "inmatrix"), Arg(c, "outfile"), c.kw)
      [] ad = "McFlirt" -> McFlirt_run(inp, Arg(c, "infile"), c.kw)
      [] ad = "Fnirt" -> Fnirt_run(inp, Arg(c, "infile"), Arg(c, "reference"), c.kw)

\* the parameters an entry point requires
Mandatory(ad, ep) ==
    CASE ad = "Bet" -> {"infile"}
      [] ad = "Fast" -> {"infiles"}
      [] ad = "Flirt" /\ ep = "applyxfm" -> {"infile", "reference", "inmatrix"}
      [] ad = "Flirt" -> {"infile", "reference"}
      [] ad = "McFlirt" -> {"infile"}
      [] ad = "Fnirt" -> {"infile", "reference"}

-----------------------------------------------------------------------------
(* The values the exploration draws.                                       *)

FileA == File("", << "a", "nii" >>)
FileB == File("d", << "b", "nii", "gz" >>)
OutC == File("", << "c", "nii" >>)
RefR == File("", << "ref", "nii" >>)
MatM == File("", << "m", "mat" >>)
MatX == File("", << "x", "mat" >>)

\* the values given to an option in SpecParse: booleans, a number, a word,
\* and the lists of numbers of every length up to MaxLen
ParamValues ==
    {VBool(TRUE), VBool(FALSE), VInt(1), Word("yes")}
    \cup {Count(k) : k \in 0..MaxLen}

\* the options whose values SpecParse varies: flags, templates of one, two
\* and three conversions, names no opt_map has, the 'args' passthrough
ExploredOpts(ad) ==
    CASE ad = "Bet" -> {"mask", "frac", "center", "bogus"}
      [] ad = "Fast" -> {"segments", "number_classes", "other_priors", "flags"}
      [] ad = "Flirt" -> {"usesqform", "bins", "searchrx", "applyisoxfm"}
      [] ad = "McFlirt" -> {"statsimgs", "bins", "bogus", "args"}
      [] ad = "Fnirt" -> {"verbose", "affine", "sub_sampling", "flags"}

\* the file parameters of each adapter as SpecParse sets them
ExploredFiles(ad) ==
    CASE ad = "Bet" -> {[infile |-> FileA], [infile |-> FileB, outfile |-> OutC],
                        [outfile |-> OutC]}
      [] ad = "Fast" -> {[infiles |-> VList(<< FileA, FileB >>)]}
      [] ad = "Flirt" -> {[infile |-> FileA, reference |-> RefR, outmatrix |-> MatM]}
      [] ad = "McFlirt" -> {[infile |-> FileA]}
      [] ad = "Fnirt" -> {[infile |-> FileA, reference |-> RefR]}

\* every assignment of values to at most MaxSet of the explored options
OptAssignments(ad) ==
    UNION {[S -> ParamValues] :
              S \in {T \in SUBSET ExploredOpts(ad) : Cardinality(T) <= MaxSet}}

\* the calls of the entry points that Spec makes
CallChoices(ad) ==
    CASE ad = "Bet" ->
           {Call("run", [infile |-> i, outfile |-> o], kw) :
               i \in {NoneV, FileA, FileB}, o \in {NoneV, OutC},
               kw \in {<< >>, [mask |-> VBool(TRUE)]}}
      [] ad = "Fast" ->
           {Call("run", [infiles |-> i], kw) :
               i \in {NoneV, VList(<< FileA >>), VList(<< FileA, FileB >>)},
               kw \in {<< >>, [nopve |-> VBool(TRUE)], [number_classes |-> VInt(2)],
                       [output_biascorrected |-> VBool(TRUE)]}}
      [] ad = "Flirt" ->
           {Call("run", [infile |-> i, reference |-> r, outfile |-> o, outmatrix |-> m], << >>) :
               i \in {NoneV, FileA}, r \in {NoneV, RefR}, o \in {NoneV, OutC},
               m \in {NoneV, MatM}}
           \cup
           {Call("applyxfm", [infile |-> i, reference |-> r, inmatrix |-> x, outfile |-> o], kw) :
               i \in {NoneV, FileA}, r \in {NoneV, RefR}, x \in {NoneV, MatX},
               o \in {NoneV, OutC}, kw \in {<< >>, [flags |-> Word("-v")]}}
      [] ad = "McFlirt" ->
           {Call("run", [infile |-> i], kw) :
               i \in {NoneV, FileA},
               kw \in {<< >>, [outfile |-> OutC], [statsimgs |-> VBool(TRUE)],
                       [outfile |-> OutC, out_basename |-> Word("c"),
                        stats |-> VBool(TRUE)]}}
      [] ad = "Fnirt" ->
           {Call("run", [infile |-> i, reference |-> r], kw) :
               i \in {NoneV, FileA}, r \in {NoneV, RefR},
               kw \in {<< >>, [outimage |-> OutC], [sub_sampling |-> Count(MaxLen)]}}

\* the assignments self.inputs.<name> = value that the caller makes
AssignChoices(ad) ==
    CASE ad = "Bet" -> {<< "outfile", OutC >>}
      [] ad = "Fast" -> {<< "segments", VBool(TRUE) >>}
      [] ad = "Flirt" -> {<< "outmatrix", MatM >>, << "flags", Word("-nosearch") >>}
      [] ad = "McFlirt" -> {<< "savemats", VBool(TRUE) >>}
      [] ad = "Fnirt" -> {<< "logfile", OutC >>, << "sub_sampling", VInt(0) >>,
                          << "sub_sampling", Count(2) >>}

\* the names a collaborator sets the registry to: one that ftypes has and
\* one it has not
RegistryChoices == {"NIFTI_GZ", "BOGUS"}

\* the subsets of S of at most k elements
RECURSIVE SubsetsUpTo(_, _)
SubsetsUpTo(S, k) ==
    IF k = 0 THEN {{}}
    ELSE LET smaller == SubsetsUpTo(S, k - 1)
         IN  smaller \cup {T \cup {x} : T \in smaller, x \in S}

\* the file systems the external process may leave: at most MaxOdd of the
\* candidate paths match no file or several files
FileSystems(candidates) ==
    UNION {{[zero |-> z, multi |-> odd \ z] : z \in SUBSET odd} :
              odd \in SubsetsUpTo(candidates, MaxOdd)}

\* the paths whose presence the exploration varies: the last path of each
\* role the adapter predicts (as the registry stands), and for Bet the mask
\* of the output volume
Candidates(ad, inp, e) ==
    LET outputs == Adapter_predict(ad, inp, e).outputs
        paths == {outputs[r][Len(outputs[r])] :
                     r \in {q \in DOMAIN outputs : outputs[q] # << >>}}
    IN  IF ad = "Bet" THEN paths \cup {Bet_maskfile(q) : q \in paths} ELSE paths

-----------------------------------------------------------------------------
(* The state machine.                                                      *)

NoFs == [zero |-> {}, multi |-> {}]
NoCall == [raised |-> FALSE, ftype |-> "", ext |-> << >>]

\* the state after construction of an adapter: every input None, the
\* registry not set in the environment
\* no aggregate_outputs is under way step by step
NoLocals == [envext |-> << >>, item |-> 0]

Init ==
    /\ adapter \in Adapters
    /\ inputs = EmptyInputs(adapter)
    /\ opt_map = ClassOptMap(adapter)
    /\ env = ""
    /\ fslout = NoCall
    /\ pc = "idle"
    /\ entry = ""
    /\ calls = 0
    /\ allargs = << >>
    /\ warnings = << >>
    /\ rc = -1
    /\ spawns = 0
    /\ fs = NoFs
    /\ predicted = NoOutputs
    /\ outcome = NoOutcome
    /\ trace = << >>
    /\ callerOut = FALSE
    /\ childEnv = ""
    /\ locals = NoLocals

\* the state of an adapter whose inputs were assigned at construction or
\* through self.inputs: the start of SpecParse
InitParse ==
    /\ adapter \in Adapters
    /\ \E files \in ExploredFiles(adapter), opts \in OptAssignments(adapter) :
           inputs = BunchUpdate(BunchUpdate(EmptyInputs(adapter), files), opts)
    /\ opt_map = ClassOptMap(adapter)
    /\ env = ""
    /\ fslout = NoCall
    /\ pc = "idle"
    /\ entry = ""
    /\ calls = 0
    /\ allargs = << >>
    /\ warnings = << >>
    /\ rc = -1
    /\ spawns = 0
    /\ fs = NoFs
    /\ predicted = NoOutputs
    /\ outcome = NoOutcome
    /\ trace = << >>
    /\ callerOut = FALSE
    /\ childEnv = ""
    /\ locals = NoLocals

\* between calls
AtRest == pc \in {"idle", "done"}

\* the caller assigns self.inputs.<name> = value
Assign ==
    /\ AtRest
    /\ \E a \in AssignChoices(adapter) :
           /\ inputs[a[1]] # a[2]
           /\ inputs' = [inputs EXCEPT ![a[1]] = a[2]]
           /\ callerOut' = (callerOut \/ a[1] = "outfile")
    /\ UNCHANGED << locals, childEnv, adapter, opt_map, env, fslout, pc, entry, calls, allargs,
                    warnings, rc, spawns, fs, predicted, outcome, trace >>

RegistryCall_restoring(names) ==
    /\ \E ftype \in names :
           /\ env' = IF fsloutputtype_ret(ftype, env).raised THEN env
                      ELSE fsloutputtype_env(ftype, env)
           /\ fslout' = fsloutputtype_ret(ftype, env)
    /\ UNCHANGED << locals, childEnv, adapter, inputs, opt_map, pc, entry, calls,
                    allargs, warnings, rc, spawns, fs, predicted, outcome,
                    trace, callerOut >>

\* fsloutputtype(ftype) is called with one of names, "" being the query
RegistryCall(names) ==
    /\ \E ftype \in names :
           /\ env' = fsloutputtype_env(ftype, env)
           /\ fslout' = fsloutputtype_ret(ftype, env)
    /\ UNCHANGED << locals, childEnv, adapter, inputs, opt_map, pc, entry, calls, allargs,
                    warnings, rc, spawns, fs, predicted, outcome, trace,
                    callerOut >>

\* a collaborator calls fsloutputtype(ftype), or fsloutputtype() to query
FslOutputType ==
    /\ AtRest
    /\ RegistryCall(RegistryChoices \cup {""})

\* the same with every name of ftypes, for the registry on its own
FslOutputTypeAny ==
    /\ AtRest
    /\ RegistryCall(FTypeNames \cup RegistryChoices \cup {""})

\* the caller reads the cmdline property
GetCmdline ==
    /\ AtRest
    /\ calls < MaxCalls
    /\ LET p == Cmdline(adapter, opt_map, inputs)
       IN  /\ opt_map' = OptMapAfterCmdline(adapter, opt_map, inputs)
           /\ inputs' = p.inputs
           /\ allargs' = IF p.raised = "" THEN p.args ELSE << >>
           /\ warnings' = p.warns
           /\ outcome' = IF p.raised = "" THEN Returned(-1, NoOutputs)
                         ELSE Raised(p.raised, "", NoPath)
    /\ pc' = "done"
    /\ entry' = "cmdline"
    /\ calls' = calls + 1
    /\ rc' = -1
    /\ spawns' = 0
    /\ predicted' = NoOutputs
    /\ trace' = << "assemble" >>
    /\ UNCHANGED << locals, childEnv, adapter, env, fslout, fs, callerOut >>

\* the caller calls an entry point: the inputs given are stored and the
\* mandatory ones checked; a missing one raises
Enter ==
    /\ AtRest
    /\ calls < MaxCalls
    /\ \E c \in CallChoices(adapter) :
           LET e == Adapter_enter(adapter, inputs, c)
           IN  /\ inputs' = e.inputs
               /\ entry' = c.ep
               /\ pc' = IF e.raised = "" THEN "entered" ELSE "done"
               /\ outcome' = IF e.raised = "" THEN NoOutcome
                             ELSE Raised(e.raised, "", NoPath)
               /\ callerOut' = (callerOut \/
                                   (e.raised = "" /\ Truthy(Arg(c, "outfile"))))
    /\ calls' = calls + 1
    /\ allargs' = << >>
    /\ warnings' = << >>
    /\ rc' = -1
    /\ spawns' = 0
    /\ predicted' = NoOutputs
    /\ trace' = << >>
    /\ childEnv' = ""
    /\ UNCHANGED << locals, adapter, opt_map, env, fslout, fs >>

\* self._runner(), first part: the command line is built from self.cmdline
Assemble ==
    /\ pc = "entered"
    /\ LET p == Cmdline(adapter, opt_map, inputs)
       IN  /\ opt_map' = OptMapAfterCmdline(adapter, opt_map, inputs)
           /\ inputs' = p.inputs
           /\ allargs' = IF p.raised = "" THEN p.args ELSE << >>
           /\ warnings' = p.warns
           /\ pc' = IF p.raised = "" THEN "assembled" ELSE "done"
           /\ outcome' = IF p.raised = "" THEN NoOutcome
                         ELSE Raised(p.raised, "", NoPath)
    /\ trace' = Append(trace, "assemble")
    /\ UNCHANGED << locals, childEnv, adapter, env, fslout, entry, calls, rc, spawns, fs,
                    predicted, callerOut >>

\* self._runner(), second part: the external process runs and ends with a
\* return code, leaving some of the expected files (which nothing looks at
\* when the return code is not 0)
Execute ==
    /\ pc = "assembled"
    /\ rc' \in {0, 1}
    /\ fs' \in IF rc' = 0 THEN FileSystems(Candidates(adapter, inputs, env))
                          ELSE {NoFs}
    /\ spawns' = spawns + 1
    /\ childEnv' = env
    /\ trace' = Append(trace, "execute")
    /\ pc' = "executed"
    /\ UNCHANGED << locals, adapter, inputs, opt_map, env, fslout, entry, calls,
                    allargs, warnings, predicted, outcome, callerOut >>

AggregatesOn_any(code) == TRUE

\* if results.runtime.returncode == 0: results.outputs = self.aggregate_outputs()
AggregatesOn(code) == code = 0

ReturnFailed_raises ==
    /\ pc = "executed"
    /\ ~AggregatesOn(rc)
    /\ outcome' = Raised("IOError", "", NoPath)
    /\ pc' = "done"
    /\ childEnv' = ""
    /\ UNCHANGED << locals, adapter, inputs, opt_map, env, fslout, entry, calls,
                    allargs, warnings, rc, spawns, fs, predicted, trace,
                    callerOut >>

\* the return code is not 0: run returns the results as _runner made them
ReturnFailed ==
    /\ pc = "executed"
    /\ ~AggregatesOn(rc)
    /\ outcome' = Returned(rc, NoOutputs)
    /\ pc' = "done"
    /\ childEnv' = ""
    /\ UNCHANGED << locals, adapter, inputs, opt_map, env, fslout, entry, calls,
                    allargs, warnings, rc, spawns, fs, predicted, trace,
                    callerOut >>

RegistryAtSpawn(now, spawned) == spawned

\* aggregate_outputs calls fsloutputtype() itself: it reads os.environ as
\* it is when the prediction runs, not as the process was given it
RegistryAtPrediction(now, spawned) == now

\* aggregate_outputs, first part: the expected paths are derived
Predict ==
    /\ pc = "executed"
    /\ AggregatesOn(rc)
    /\ LET pr == Adapter_predict(adapter, inputs,
                                 RegistryAtPrediction(env, childEnv))
       IN  /\ predicted' = pr.outputs
           /\ pc' = IF pr.raised = "" THEN "predicted" ELSE "done"
           /\ childEnv' = IF pr.raised = "" THEN childEnv ELSE ""
           /\ outcome' = IF pr.raised = "" THEN NoOutcome
                         ELSE Raised(pr.raised, "", NoPath)
    /\ trace' = Append(trace, "predict")
    /\ UNCHANGED << locals, adapter, inputs, opt_map, env, fslout, entry, calls,
                    allargs, warnings, rc, spawns, fs, callerOut >>

\* aggregate_outputs, second part: the expected paths are looked up
Verify ==
    /\ pc = "predicted"
    /\ \E o \in Adapter_verify(adapter, entry, predicted, fs) :
           /\ outcome' = o
           /\ predicted' = IF o.kind = "returned" THEN o.outputs ELSE predicted
    /\ trace' = Append(trace, "verify")
    /\ pc' = "done"
    /\ childEnv' = ""
    /\ UNCHANGED << locals, adapter, inputs, opt_map, env, fslout, entry, calls,
                    allargs, warnings, rc, spawns, fs, callerOut >>

Next ==
    \/ Assign
    \/ FslOutputType
    \/ GetCmdline
    \/ Enter
    \/ Assemble
    \/ Execute
    \/ ReturnFailed
    \/ Predict
    \/ Verify

Spec == Init /\ [][Next]_vars

\* the option map engine on its own: a ParameterSet is drawn, and the
\* command line is built from it
NextParse == GetCmdline

SpecParse == InitParse /\ [][NextParse]_vars

\* the names a second collaborator sets while a call is under way
ConcurrentChoices == {"NIFTI_GZ", "NIFTI"}

\* a second collaborator calls fsloutputtype(ftype) while a call of this
\* adapter is under way, after the process has run and before
\* aggregate_outputs reads the registry: nothing locks os.environ.  (A
\* call before the process runs has the effect of one made before run.)
FslOutputTypeDuring ==
    /\ pc = "executed"
    /\ RegistryCall(ConcurrentChoices)

\* the adapter with a second collaborator that shares the process
NextConcurrent ==
    \/ Next
    \/ FslOutputTypeDuring

\* the adapters whose aggregate_outputs reads the registry
RegistryReaders == {"Fast", "McFlirt"}

InitConcurrent ==
    /\ Init
    /\ adapter \in RegistryReaders

SpecConcurrent == InitConcurrent /\ [][NextConcurrent]_vars

\* the values of sub_sampling a second Fnirt instance is built with
OtherValues == {Count(k) : k \in 1..MaxLen}

\* a second Fnirt instance reads its cmdline: its update_optmap writes the
\* templates for its own values into opt_map, the dictionary of the class
\* that every instance reads; its _parse_inputs changes nothing shared
OtherCmdline ==
    /\ adapter = "Fnirt"
    /\ \E v \in OtherValues :
           opt_map' = Fnirt_update_optmap(opt_map,
                          [EmptyInputs("Fnirt") EXCEPT !["sub_sampling"] = v])
    /\ opt_map' # opt_map
    /\ UNCHANGED << locals, adapter, inputs, env, fslout, pc, entry, calls, allargs,
                    warnings, rc, spawns, fs, predicted, outcome, trace,
                    callerOut, childEnv >>

\* Fnirt.cmdline, first statement: self.update_optmap()
UpdateOptmap ==
    /\ adapter = "Fnirt"
    /\ AtRest
    /\ calls < MaxCalls
    /\ opt_map' = Fnirt_update_optmap(opt_map, inputs)
    /\ pc' = "updated"
    /\ entry' = "cmdline"
    /\ calls' = calls + 1
    /\ allargs' = << >>
    /\ warnings' = << >>
    /\ outcome' = NoOutcome
    /\ rc' = -1
    /\ spawns' = 0
    /\ predicted' = NoOutputs
    /\ trace' = << >>
    /\ UNCHANGED << locals, adapter, inputs, env, fslout, fs, callerOut, childEnv >>

\* Fnirt.cmdline, the statements after update_optmap: _parse_inputs reads
\* opt_map as it is by then
ParseInputs ==
    /\ pc = "updated"
    /\ LET p == CmdlineParsed(adapter, opt_map, inputs)
       IN  /\ inputs' = p.inputs
           /\ allargs' = IF p.raised = "" THEN p.args ELSE << >>
           /\ warnings' = p.warns
           /\ outcome' = IF p.raised = "" THEN Returned(-1, NoOutputs)
                         ELSE Raised(p.raised, "", NoPath)
    /\ pc' = "done"
    /\ trace' = << "assemble" >>
    /\ UNCHANGED << locals, adapter, opt_map, env, fslout, entry, calls, rc, spawns,
                    fs, predicted, callerOut, childEnv >>

\* two Fnirt instances in one process: this one assigns inputs and reads
\* its cmdline while the other reads its own
NextShared ==
    \/ Assign
    \/ UpdateOptmap
    \/ ParseInputs
    \/ OtherCmdline

InitShared ==
    /\ Init
    /\ adapter = "Fnirt"

SpecShared == InitShared /\ [][NextShared]_vars

ItemExtension_adhoc(local, now) == now

\* the loop over infiles in Fast.aggregate_outputs uses the local envext
\* that was read before the loop, not the registry as it is by then
ItemExtension(local, now) == local

\* Fast.aggregate_outputs, first statement: envext = fsloutputtype()[1],
\* and the empty outputs Bunch
ReadRegistry ==
    /\ adapter = "Fast"
    /\ pc = "executed"
    /\ AggregatesOn(rc)
    /\ LET reg == fsloutputtype_ret("", env)
       IN  /\ pc' = IF reg.raised THEN "done" ELSE "predicting"
           /\ outcome' = IF reg.raised THEN Raised("KeyError", "", NoPath)
                         ELSE NoOutcome
           /\ locals' = IF reg.raised THEN NoLocals
                        ELSE [envext |-> reg.ext, item |-> 0]
           /\ childEnv' = IF reg.raised THEN "" ELSE childEnv
    /\ predicted' = Fast_outputs
    /\ trace' = Append(trace, "predict")
    /\ UNCHANGED << adapter, inputs, opt_map, env, fslout, entry, calls,
                    allargs, warnings, rc, spawns, fs, callerOut >>

\* Fast.aggregate_outputs, one pass of the loop over infiles
PredictItem ==
    /\ pc = "predicting"
    /\ LET files == Fast_infiles(inputs)
           i == locals.item + 1
           pr == Fast_predict_item(Pred(predicted, ""), inputs, files[i].s,
                     ItemExtension(locals.envext, fsloutputtype_ret("", env).ext))
           more == pr.raised = "" /\ i < Len(files)
       IN  /\ predicted' = pr.outputs
           /\ pc' = IF pr.raised # "" THEN "done"
                    ELSE IF more THEN "predicting" ELSE "predicted"
           /\ outcome' = IF pr.raised = "" THEN NoOutcome
                         ELSE Raised(pr.raised, "", NoPath)
           /\ locals' = IF more THEN [locals EXCEPT !.item = i] ELSE NoLocals
           /\ childEnv' = IF pr.raised = "" THEN childEnv ELSE ""
    /\ UNCHANGED << adapter, inputs, opt_map, env, fslout, entry, calls,
                    allargs, warnings, rc, spawns, fs, trace, callerOut >>

\* a second collaborator calls fsloutputtype(ftype) while the loop of
\* aggregate_outputs, or the check of the files, is under way
FslOutputTypeInside ==
    /\ pc \in {"predicting", "predicted"}
    /\ RegistryCall(ConcurrentChoices)

\* Fast with its prediction taken statement by statement, and a second
\* collaborator that sets the registry at any point of it
NextPrediction ==
    \/ FslOutputType
    \/ Enter
    \/ Assemble
    \/ Execute
    \/ ReturnFailed
    \/ FslOutputTypeDuring
    \/ ReadRegistry
    \/ PredictItem
    \/ FslOutputTypeInside
    \/ Verify

InitPrediction ==
    /\ Init
    /\ adapter = "Fast"

SpecPrediction == InitPrediction /\ [][NextPrediction]_vars

\* the registry on its own: collaborators set and query it, and assign
\* inputs, while no command is built or run
NextRegistry ==
    \/ FslOutputTypeAny
    \/ Assign

SpecRegistry == Init /\ [][NextRegistry]_vars

-----------------------------------------------------------------------------
(* Properties of the option map engine, checked under SpecParse.           *)

\* the cmdline property has been read and gave a command line
CmdlineRead == pc = "done" /\ entry = "cmdline"
CmdlineGiven == CmdlineRead /\ outcome.kind = "returned"

\* the tokens of the command line that came from the parameter o
TokensOf(o) == SelectSeq(allargs, LAMBDA t : t.opt = o)

\* a violation of kind k was reported for the parameter o
Reported(k, o) == \E i \in DOMAIN warnings : warnings[i] = [kind |-> k, opt |-> o]
ReportedAny(o) == \E i \in DOMAIN warnings : warnings[i].opt = o

\* the parameters the engine formats: set, not skipped, not the passthrough
EngineParams ==
    {o \in DOMAIN inputs : inputs[o].t # "none"} \ (Skip(adapter) \cup {"args"})

\* those whose template has no conversion, and those whose template has some
FlagParams == {o \in EngineParams \cap DOMAIN opt_map : NoFormat(opt_map[o])}
TemplatedParams == {o \in EngineParams \cap DOMAIN opt_map : ~NoFormat(opt_map[o])}

\* the flag token of o: the words of its template
FlagToken(o) == Token(o, [j \in DOMAIN opt_map[o] |-> Lit(opt_map[o][j])])

\* the only exception that leaves the engine: an 'args' value that cannot
\* be iterated
AbortedByArgs ==
    /\ outcome.error = "TypeError"
    /\ "args" \in DOMAIN inputs
    /\ inputs["args"].t \notin {"none", "list", "str"}

\* C1: for every flag parameter, True gives exactly the flag token, False
\* gives no token, and any other value that is not None gives no token and a
\* reported violation; no such violation aborts the assembly
C1_Flags ==
    CmdlineRead =>
        /\ outcome.kind = "raised" => AbortedByArgs
        /\ outcome.kind = "returned" =>
               \A o \in FlagParams :
                   /\ inputs[o] = VBool(TRUE) =>
                          TokensOf(o) = << FlagToken(o) >> /\ ~ReportedAny(o)
                   /\ inputs[o] = VBool(FALSE) =>
                          TokensOf(o) = << >> /\ ~ReportedAny(o)
                   /\ inputs[o].t # "bool" =>
                          TokensOf(o) = << >> /\ Reported("TypeError", o)

\* a command line was given although a flag held a number, which was
\* reported, while another parameter gave its token
C1_Witness ==
    /\ CmdlineGiven
    /\ \E o \in FlagParams : inputs[o] = VInt(1) /\ Reported("TypeError", o)
    /\ \E o \in EngineParams : TokensOf(o) # << >>

\* the values a token's conversions hold, in the order of the template
Converted(tok) ==
    LET conv == SelectSeq(tok.pieces, LAMBDA q : q.conv # "")
    IN  [i \in DOMAIN conv |-> conv[i].val]

\* a sequence of numbers
NumberList(v) == v.t = "list" /\ \A i \in DOMAIN v.l : v.l[i].t = "int"

\* C2: for every templated parameter with N conversions, a sequence of
\* numbers whose length is not N gives no token and a reported violation; one
\* of length N gives one token holding the values in their given order
C2_Arity ==
    CmdlineGiven =>
        \A o \in TemplatedParams :
            NumberList(inputs[o]) =>
                IF Len(inputs[o].l) = NPlaceholders(opt_map[o])
                THEN /\ Len(TokensOf(o)) = 1
                     /\ Converted(TokensOf(o)[1]) = inputs[o].l
                     /\ ~ReportedAny(o)
                ELSE /\ TokensOf(o) = << >>
                     /\ Reported("TypeError", o)

\* a template of several conversions took a sequence of that length, while
\* another parameter's sequence had the wrong length and was reported
C2_Witness ==
    /\ CmdlineGiven
    /\ \E o \in TemplatedParams :
           /\ NumberList(inputs[o])
           /\ Len(inputs[o].l) >= 2
           /\ Len(TokensOf(o)) = 1
           /\ Converted(TokensOf(o)[1]) = inputs[o].l
    /\ \E o \in TemplatedParams :
           /\ NumberList(inputs[o])
           /\ Len(inputs[o].l) # NPlaceholders(opt_map[o])
           /\ Reported("TypeError", o)

\* the tokens the engine made: those not placed by the adapter itself
EngineTokens(args) ==
    SelectSeq(args, LAMBDA t : t.opt \notin Skip(adapter) \cup {"cmd"})

\* a parameter the engine cannot format: unknown to opt_map, or reported
Offending(o) == o \notin DOMAIN opt_map \/ ReportedAny(o)

\* the engine run on the same inputs with o unset
WithoutParam(o) ==
    FSLCommand_parse_inputs(adapter, opt_map, [inputs EXCEPT ![o] = NoneV],
                            Skip(adapter))

\* C3: a parameter unknown to opt_map, or one that fails formatting, is
\* reported and gives no token, the assembly goes on, and the engine's
\* tokens for the other parameters are those it makes with the offending
\* parameter unset
C3_NotFailFast ==
    CmdlineRead =>
        /\ outcome.kind = "raised" =>
               AbortedByArgs /\ outcome.role = "" /\ allargs = << >>
        /\ outcome.kind = "returned" =>
               \A o \in EngineParams :
                   Offending(o) =>
                       /\ ReportedAny(o)
                       /\ o \notin DOMAIN opt_map => Reported("KeyError", o)
                       /\ TokensOf(o) = << >>
                       /\ WithoutParam(o).raised = ""
                       /\ EngineTokens(allargs) = WithoutParam(o).args

\* an unknown parameter was reported while another parameter gave a token
C3_Witness ==
    /\ CmdlineGiven
    /\ \E o \in EngineParams : o \notin DOMAIN opt_map /\ Reported("KeyError", o)
    /\ EngineTokens(allargs) # << >>

-----------------------------------------------------------------------------
(* Properties of the entry points and of a whole invocation, checked       *)
(* under Spec.                                                             *)

\* an entry point has been called (and has perhaps ended)
InCall == pc # "idle" /\ entry \notin {"", "cmdline"}

\* a mandatory parameter of the entry point is neither given nor stored
MissingMandatory == \E n \in Mandatory(adapter, entry) : ~Truthy(inputs[n])

\* C4: a call of an entry point with a mandatory parameter absent from the
\* call and from the stored inputs has raised, with no argument vector
\* built and the process runner not invoked
C4_MandatoryFirst ==
    InCall /\ MissingMandatory =>
        /\ pc = "done"
        /\ outcome = Raised("AttributeError", "", NoPath)
        /\ trace = << >>
        /\ allargs = << >>
        /\ spawns = 0

\* applyxfm was called with the input and the reference but no matrix, and
\* raised
C4_Witness ==
    /\ adapter = "Flirt" /\ entry = "applyxfm" /\ pc = "done"
    /\ Truthy(inputs["infile"]) /\ Truthy(inputs["reference"])
    /\ ~Truthy(inputs["inmatrix"])
    /\ outcome.error = "AttributeError"

\* the process of this call ran and ended with a return code that is not 0
ProcessFailed == InCall /\ pc = "done" /\ spawns >= 1 /\ rc # 0

\* C5 as stated: after a return code that is not 0 the run ends in a
\* failure raised to the caller
C5_HardFailure == ProcessFailed => outcome.kind = "raised"

\* C5, amended: after a return code that is not 0 the run returns its
\* results to the caller, with that return code and with no outputs; the
\* process ran once and the outputs were neither predicted nor verified
C5_ReturnsFailed ==
    ProcessFailed =>
        /\ outcome = Returned(rc, NoOutputs)
        /\ spawns = 1
        /\ trace = << "assemble", "execute" >>

\* a run whose process ended with return code 1 returned
C5_Witness == ProcessFailed /\ rc = 1 /\ outcome.kind = "returned"

\* the steps of an invocation, in the order of the code
Steps == << "assemble", "execute", "predict", "verify" >>

\* C6: within one invocation the steps are assembly, execution, prediction
\* and verification in that order; prediction and verification come only
\* after return code 0, and a return code that is not 0 ends the run after
\* execution
C6_Ordering ==
    /\ Len(trace) <= Len(Steps)
    /\ trace = SubSeq(Steps, 1, Len(trace))
    /\ InCall =>
           /\ Len(trace) >= 2 <=> spawns = 1
           /\ Len(trace) >= 3 => rc = 0
           /\ pc = "done" /\ Len(trace) >= 2 /\ rc # 0 => Len(trace) = 2

\* a run went through all four steps and returned its outputs
C6_Witness ==
    /\ InCall /\ pc = "done" /\ trace = Steps /\ rc = 0
    /\ outcome.kind = "returned"

\* the output path in the command line, and in the predicted outputs
OutfileTokens == SelectSeq(allargs, LAMBDA t : t.opt = "outfile")

\* a Bet.run whose caller never named an output path
BetRunDefaultOut == adapter = "Bet" /\ entry = "run" /\ InCall /\ ~callerOut

\* C7: in every Bet.run for which the caller named no output path, the
\* output path of the command and of the predicted outputs is that call's
\* input file name with '_bet' before the extension
C7_DerivedPerCall ==
    BetRunDefaultOut =>
        /\ Len(trace) >= 1 /\ allargs # << >> =>
               OutfileTokens = << Token("outfile", << Raw(BetDerivedOutfile(inputs)) >>) >>
        /\ Len(trace) >= 3 =>
               predicted.outfile = << BetDerivedOutfile(inputs).s >>

\* C8: for Bet with an input and no output path named, after return code 0
\* the predicted output is the input name with '_bet' before the
\* extension, the mask role is the '_mask' path if a file matches it and
\* None otherwise; the call fails when the output volume is missing and
\* never because the mask is
C8_BetOutputs ==
    BetRunDefaultOut /\ pc = "done" /\ rc = 0 /\ trace = Steps =>
        LET out == BetDerivedOutfile(inputs).s
            mask == fname_presuffix(out, "_mask", "")
        IN  IF GlobCount(fs, out) = 1
            THEN outcome =
                     Returned(0, [outfile |-> << out >>,
                                  maskfile |-> IF GlobCount(fs, mask) > 0
                                               THEN << mask >> ELSE << >>])
            ELSE outcome.kind = "raised" /\ outcome.path = out

\* a Fast.run whose process ended with return code 0
FastRan == adapter = "Fast" /\ entry = "run" /\ InCall /\ rc = 0

\* none of the optional outputs of Fast is asked for
FastNoOptions ==
    \A name \in {"segments", "output_biasfield", "output_biascorrected",
                 "probability_maps"} : ~Truthy(inputs[name])

\* the number of input files, and the class count: 3 unless set
FastK == IF inputs["infiles"].t = "list" THEN Len(inputs["infiles"].l) ELSE 1
FastN == IF inputs["number_classes"].t = "none" THEN 3 ELSE inputs["number_classes"].n

\* the prediction of this call went through
Predicted == Len(trace) >= 3 /\ (pc = "done" => Len(trace) = 4)

\* some predicted path does not match exactly one file
SomeNotOne == \E en \in Entries(predicted) : GlobCount(fs, en.path) # 1

\* the call failed with the error that names a predicted role and path
\* that does not match exactly one file
MissingOutputError ==
    /\ outcome.kind = "raised"
    /\ outcome.error = "IOError"
    /\ \E en \in Entries(predicted) :
           /\ outcome.role = en.role
           /\ outcome.path = en.path
           /\ GlobCount(fs, en.path) # 1

\* C9: for Fast with k input files, class count n (3 when unset) and no
\* optional output asked for, the predicted set holds exactly k
\* segmentation maps and, unless nopve is set, k partial-volume maps, k
\* mixel-type maps and k*n per-class partial-volume files, and nothing
\* else; after return code 0 the call fails with the missing-output error
\* naming role and path if and only if some predicted path does not match
\* exactly one file
C9_FastDefault ==
    FastRan /\ FastNoOptions /\ Predicted =>
        /\ Len(predicted.seg) = FastK
        /\ Len(predicted.partial_volume_map) =
               IF Truthy(inputs["nopve"]) THEN 0 ELSE FastK
        /\ Len(predicted.mixeltype) =
               IF Truthy(inputs["nopve"]) THEN 0 ELSE FastK
        /\ Len(predicted.partial_volume_files) =
               IF Truthy(inputs["nopve"]) THEN 0 ELSE FastK * FastN
        /\ \A role \in DOMAIN predicted \ {"seg", "partial_volume_map",
                                           "mixeltype", "partial_volume_files"} :
               predicted[role] = << >>
        /\ Cardinality(Paths(predicted)) = Cardinality(Entries(predicted))
        /\ pc = "done" =>
               /\ MissingOutputError <=> SomeNotOne
               /\ ~SomeNotOne => outcome = Returned(0, predicted)

\* two input files, class count unset: 2 + 2 + 2 + 6 paths were predicted,
\* one of them matched no file, and the call failed naming it
C9_Witness ==
    /\ FastRan /\ FastNoOptions /\ Predicted /\ pc = "done"
    /\ FastK = 2 /\ inputs["number_classes"].t = "none" /\ ~Truthy(inputs["nopve"])
    /\ Len(predicted.partial_volume_files) = 6
    /\ MissingOutputError
    /\ GlobCount(fs, outcome.path) = 0

\* every file predicted by this call matches exactly one file
AllPredictedExist == ~SomeNotOne

\* C10: for Fast with output_biascorrected true, prediction puts one
\* '_restore' path per input file in the bias-corrected role, and the call
\* succeeds exactly when every predicted file exists
C10_BiasCorrected ==
    FastRan /\ Truthy(inputs["output_biascorrected"]) /\ pc = "done"
            /\ fsloutputtype_ret("", env).raised = FALSE =>
        /\ Len(predicted.bias_corrected) = FastK
        /\ outcome.kind = "returned" <=> AllPredictedExist

-----------------------------------------------------------------------------
(* Properties of the Flirt outputs, checked under Spec.                    *)

\* a call of the Flirt entry point ep whose process ended with return code
\* 0 and whose aggregate_outputs ran to its end or to its exception
FlirtAggregated(ep) ==
    /\ adapter = "Flirt" /\ entry = ep /\ InCall
    /\ pc = "done" /\ rc = 0 /\ trace = Steps

\* C11: in applyxfm after return code 0 the output-matrix role is neither
\* predicted (it is None in the result) nor verified, also when
\* inputs.outmatrix is set, and the output volume is verified whenever an
\* output path was given
C11_ApplyxfmNoMatrix ==
    FlirtAggregated("applyxfm") =>
        /\ outcome.kind = "returned" => outcome.outputs.outmatrix = << >>
        /\ outcome.kind = "raised" => outcome.role # "outmatrix"
        /\ Truthy(inputs["outfile"]) =>
               (outcome.kind = "returned" <=> GlobCount(fs, inputs["outfile"].s) >= 1)

\* C12: the output volume and the output matrix of Flirt are optional: a
\* role is predicted and verified only if its path was given, and a call
\* with return code 0 does not fail on a role whose path was not given
C12_OptionalOutputs ==
    \A ep \in {"run", "applyxfm"} :
        FlirtAggregated(ep) =>
            /\ \A role \in {"outfile", "outmatrix"} :
                   predicted[role] =
                       IF Truthy(inputs[role]) THEN << inputs[role].s >> ELSE << >>
            /\ outcome.kind = "raised" => Truthy(inputs[outcome.role])

-----------------------------------------------------------------------------
(* Properties of the McFlirt and Fnirt outputs, checked under Spec.        *)

\* a McFlirt.run whose process ended with return code 0 and whose
\* aggregate_outputs read the registry and went on
McFlirtAggregated ==
    /\ adapter = "McFlirt" /\ entry = "run" /\ InCall
    /\ pc = "done" /\ rc = 0 /\ Len(trace) >= 3
    /\ outcome.error # "KeyError"

\* the base name of the realigned volume: the output path if given, else
\* the input name with '_mcf', both without their extension
McFlirtBase ==
    IF Truthy(inputs["outfile"]) THEN splitext_root(inputs["outfile"].s)
    ELSE AddSuffix(splitext_root(inputs["infile"].s), "_mcf")

\* C13: McFlirt after return code 0 always predicts the realigned volume,
\* named after the output path if given and else after the input with
\* '_mcf', with a registry extension; the statistics, matrix and parameter
\* roles are predicted only when their flag is set; the call succeeds when
\* every predicted file exists
C13_McFlirtOutputs ==
    McFlirtAggregated =>
        /\ \E f \in FTypeNames \cup {""} :
               predicted.outfile = << AddExt(McFlirtBase, ftypes(f)) >>
        /\ \A role \in {"varianceimg", "stdimg", "meanimg"} :
               predicted[role] # << >> => Truthy(inputs["statsimgs"])
        /\ predicted.outmatfile # << >> => Truthy(inputs["savemats"])
        /\ predicted.parfile # << >> => Truthy(inputs["saveplots"])
        /\ (\A en \in Entries(predicted) : GlobCount(fs, en.path) >= 1) =>
               outcome.kind = "returned"

\* a Fnirt.run whose process ended with return code 0 and whose
\* aggregate_outputs ran to its end or to its exception
FnirtAggregated ==
    /\ adapter = "Fnirt" /\ entry = "run" /\ InCall
    /\ pc = "done" /\ rc = 0 /\ trace = Steps

\* a role whose output path was supplied and matches no file
FnirtMissing(role) ==
    /\ Truthy(inputs[Fnirt_role_input[role]])
    /\ GlobCount(fs, inputs[Fnirt_role_input[role]].s) = 0

\* C14: for Fnirt after return code 0 each of the seven roles is the output
\* path supplied for it, None when none was; the call fails, naming the
\* role, if and only if some supplied path matches no file, and a role
\* whose path was not supplied never makes it fail
C14_FnirtEcho ==
    FnirtAggregated =>
        /\ \A role \in DOMAIN Fnirt_role_input :
               predicted[role] =
                   IF Truthy(inputs[Fnirt_role_input[role]])
                   THEN << inputs[Fnirt_role_input[role]].s >> ELSE << >>
        /\ outcome.kind = "raised" <=> \E role \in DOMAIN Fnirt_role_input : FnirtMissing(role)
        /\ outcome.kind = "raised" => FnirtMissing(outcome.role)

-----------------------------------------------------------------------------
(* Properties of Fnirt's templates of variable arity, checked under Spec.  *)

\* a step that builds the command line of the Fnirt adapter: the cmdline
\* property is read, by the caller or by the runner
FnirtBuilds ==
    /\ adapter = "Fnirt"
    /\ Len(trace') = 1
    /\ trace' # trace \/ calls' # calls
    /\ allargs' # << >>

\* the elements of a numeric value: those of a list, or the scalar itself
Elements(v) == IF v.t = "list" THEN v.l ELSE << v >>

\* every variable-arity option that holds a number or a list of numbers
\* has one token, which carries the elements of the value in order
TokensCarryValues ==
    \A o \in Range(Fnirt_itemstoupdate) :
        (inputs[o].t = "int" \/ (NumberList(inputs[o]) /\ inputs[o].l # << >>)) =>
            /\ Len(TokensOf(o)) = 1
            /\ Converted(TokensOf(o)[1]) = Elements(inputs[o])

\* C15: every build of Fnirt's command line regenerates the templates of
\* the variable-arity options from the current values, so that after any
\* sequence of builds the token carries all elements of the current value
\* (a list of any length, a scalar, 0) and the option is never dropped
\* because of a template an earlier build left
C15_Regenerated == [][FnirtBuilds => TokensCarryValues']_vars

-----------------------------------------------------------------------------
(* Properties of the output-format registry, checked under SpecRegistry    *)
(* and Spec.                                                               *)

\* the extension of each supported format name
FixedExtension(f) ==
    CASE f = "NIFTI_GZ" -> << "nii", "gz" >>
      [] f = "NIFTI" -> << "nii" >>
      [] f \in {"NIFTI_PAIR", "ANALYZE"} -> << "hdr" >>
      [] f \in {"NIFTI_PAIR_GZ", "ANALYZE_GZ"} -> << "hdr", "gz" >>

SupportedNames ==
    {"NIFTI_GZ", "NIFTI", "NIFTI_PAIR", "ANALYZE", "NIFTI_PAIR_GZ", "ANALYZE_GZ"}

\* what fsloutputtype returns for the name f: the name and its extension
RegistryPair(f) == [raised |-> FALSE, ftype |-> f, ext |-> FixedExtension(f)]

\* what the query returns when the environment has no FSLOUTPUTTYPE
UnsetSentinel == [raised |-> FALSE, ftype |-> "", ext |-> NotSetMessage]

\* C16: setting the registry to a supported name f returns (f, ext(f)),
\* with the fixed mapping of names to extensions, and a query that follows
\* returns the same pair; a query on a clean environment returns the unset
\* sentinel
C16_Registry ==
    /\ [](/\ env \in SupportedNames => fslout = RegistryPair(env)
          /\ env = "" => fslout \in {NoCall, UnsetSentinel})
    /\ [][/\ \A f \in SupportedNames :
                 env' = f /\ env # f => fslout' = RegistryPair(f)
          /\ env \in SupportedNames /\ env' = env => fslout' = fslout
          /\ env = "" /\ env' = "" /\ fslout' # fslout => fslout' = UnsetSentinel]_vars

\* the registry was set to the compressed format and holds its pair
C16_Witness == env = "NIFTI_GZ" /\ fslout = RegistryPair("NIFTI_GZ")

-----------------------------------------------------------------------------
(* Properties of adapters that share the process with a second             *)
(* collaborator, checked under SpecConcurrent.                             *)

\* the last dotted part of the extension of the format f ('gz' of 'nii.gz')
LastExtension(f) == FixedExtension(f)[Len(FixedExtension(f))]

\* the name of the path p ends in '.' + e
EndsIn(p, e) == Len(p.segs) > 1 /\ p.segs[Len(p.segs)] = e

\* every path of the volume roles that Fast has predicted
FastPredictedPaths ==
    UNION {Range(predicted[role]) : role \in DOMAIN predicted}

\* the step in which Fast.aggregate_outputs computes the expected paths
FastPredicts ==
    /\ adapter = "Fast"
    /\ pc = "executed"
    /\ pc' = "predicted"

\* the registry was set between the run of the process and the prediction
RegistryMoved ==
    /\ childEnv \in SupportedNames
    /\ env \in SupportedNames
    /\ LastExtension(env) # LastExtension(childEnv)

\* C17: the prediction reads the registry when it runs, with no lock: the
\* paths Fast predicts carry the extension of the registry as it is at the
\* prediction, also when the process ran under another one
C17_ReadAtPrediction ==
    [][FastPredicts /\ env \in SupportedNames =>
          \A p \in FastPredictedPaths' : EndsIn(p, LastExtension(env))]_vars

\* Fast has predicted, and is about to look up, paths with an extension
\* other than the one in effect when its process ran
C17_Witness ==
    /\ adapter = "Fast"
    /\ pc = "predicted"
    /\ RegistryMoved
    /\ FastPredictedPaths # {}
    /\ \A p \in FastPredictedPaths :
           /\ EndsIn(p, LastExtension(env))
           /\ ~EndsIn(p, LastExtension(childEnv))


\* the step in which this Fnirt instance's cmdline is assembled
FnirtParses == adapter = "Fnirt" /\ pc = "updated" /\ pc' = "done"

\* the argument vector of an instance with the inputs inp on a class no
\* other instance has touched
OwnArguments(inp) == Cmdline("Fnirt", Fnirt_opt_map, inp).args

\* C18: the registry is the only state instances share: whatever builds a
\* second Fnirt instance makes in between, the argument vector of this
\* instance is the one its own inputs determine
C18_OwnParameters == [][FnirtParses => allargs' = OwnArguments(inputs)]_vars

-----------------------------------------------------------------------------
(* Properties of repeated builds, checked under SpecParse.                 *)

\* cmdline is read again right after it was read: no assignment between
BuildsAgain == CmdlineRead /\ calls' = calls + 1 /\ entry' = "cmdline"

\* C19: reading cmdline twice in a row with no assignment in between gives
\* the same argument vector, for the engine and for every adapter, and
\* leaves the same warnings and outcome
C19_Idempotent ==
    [][BuildsAgain => /\ allargs' = allargs
                      /\ warnings' = warnings
                      /\ outcome' = outcome]_vars

\* cmdline was read twice and gave a command with options
C19_Witness ==
    /\ CmdlineGiven
    /\ calls = 2
    /\ Len(allargs) >= 3


\* the tokens of Bet's paths, and the position (counted from 0, after the
\* command name) of the token of the path named o
PathTokens == {"infile", "outfile"}
PositionOf(o) == {i \in 0..(Len(allargs) - 2) : allargs[i + 2].opt = o}

\* C20: in the command Bet builds, for every parameter set, also one with
\* only one of the two paths, the input path is at position 0, the output
\* path (given or derived) at position 1, and no option token comes before
\* a path token
C20_BetPositions ==
    CmdlineGiven /\ adapter = "Bet" =>
        /\ Truthy(inputs["infile"]) => PositionOf("infile") = {0}
        /\ Truthy(inputs["outfile"]) => PositionOf("outfile") = {1}
        /\ \A i, j \in DOMAIN allargs :
               i < j /\ allargs[j].opt \in PathTokens =>
                   allargs[i].opt \in PathTokens \cup {"cmd"}

-----------------------------------------------------------------------------
(* Properties of the flags of Flirt.applyxfm, checked under Spec.          *)

\* the flag words that occur, and the texts of up to three of them joined
\* by blanks
FlagWords == {"-v", "-nosearch", "-applyxfm"}
FlagLists == UNION {[1..n -> FlagWords] : n \in 0..3}

RECURSIVE JoinedUpTo(_, _)
JoinedUpTo(ws, n) ==
    IF n = 0 THEN ""
    ELSE IF n = 1 THEN ws[1]
    ELSE JoinedUpTo(ws, n - 1) \o " " \o ws[n]

\* the words of a flags value: none for None, else the split of its text
FlagTokens(v) ==
    IF v.t # "str" THEN << >>
    ELSE CHOOSE ws \in FlagLists : v.s = Word(JoinedUpTo(ws, Len(ws))).s

\* the step in which the applyxfm call c stores its inputs
ApplyxfmStores(c) ==
    /\ adapter = "Flirt" /\ AtRest
    /\ c.ep = "applyxfm"
    /\ entry' = "applyxfm" /\ pc' = "entered"
    /\ inputs' = Adapter_enter("Flirt", inputs, c).inputs

\* C21: applyxfm updates the flags: after it has stored its inputs, the
\* flags hold every flag word that was stored in the inputs before the call
\* or passed in the call, and '-applyxfm' after them
C21_FlagsUpdated ==
    [][\A c \in CallChoices("Flirt") :
          ApplyxfmStores(c) =>
              LET after == FlagTokens(inputs'["flags"])
                  before == Range(FlagTokens(inputs["flags"]))
                                \cup Range(FlagTokens(BunchGet(c.kw, "flags", NoneV)))
              IN  /\ after # << >>
                  /\ after[Len(after)] = "-applyxfm"
                  /\ before \subseteq Range(after)]_vars

-----------------------------------------------------------------------------
(* Properties of a registry set to a name ftypes lacks, checked under Spec. *)

\* the registry holds a name that is not in the table
RegistryBad == env \notin SupportedNames \cup {""}

\* the step in which an adapter that reads the registry predicts its paths
ReaderPredicts ==
    /\ adapter \in RegistryReaders
    /\ pc = "executed"
    /\ Len(trace') = 3

\* C22: fsloutputtype with a name the table lacks raises after the registry
\* was set to that name and does not restore it: the registry then holds
\* the name, every later query raises, and every prediction of Fast and
\* McFlirt raises, until a supported name is set
C22_BadNameSticks ==
    /\ [](/\ fslout.raised => RegistryBad /\ env = fslout.ftype
          /\ RegistryBad => fslout.raised
          /\ RegistryBad => fsloutputtype_ret("", env).raised
          /\ env \in SupportedNames => ~fslout.raised)
    /\ [][ReaderPredicts =>
             /\ RegistryBad => /\ pc' = "done"
                               /\ outcome'.kind = "raised"
                               /\ outcome'.error = "KeyError"
             /\ ~RegistryBad => outcome'.error # "KeyError"]_vars

\* Fast ran its process with return code 0 and its prediction raised
\* KeyError, the registry holding the name a raising call had set
C22_Witness ==
    /\ adapter = "Fast"
    /\ pc = "done" /\ rc = 0 /\ Len(trace) = 3
    /\ RegistryBad
    /\ fslout.raised /\ fslout.ftype = env
    /\ outcome.kind = "raised" /\ outcome.error = "KeyError"

-----------------------------------------------------------------------------
(* Properties of what command assembly leaves in self.inputs, checked      *)
(* under SpecParse.                                                        *)

\* a step in which a command is assembled: cmdline is read, or _runner
\* builds the command of a call
AssemblyStep ==
    \/ AtRest /\ calls' = calls + 1 /\ entry' = "cmdline"
    \/ pc = "entered" /\ pc' \in {"assembled", "done"}

\* the '_bet' name of the explored input files
BetName(infile) ==
    CASE infile = FileA -> File("", << "a_bet", "nii" >>)
      [] infile = FileB -> File("d", << "b", "nii_bet", "gz" >>)

\* Bet has an input path and no output path
BetDerives ==
    adapter = "Bet" /\ Truthy(inputs["infile"]) /\ ~Truthy(inputs["outfile"])

\* C23: assembling a command changes no parameter of any adapter, except
\* that Bet writes the derived '_bet' path into inputs.outfile, and only
\* when the input path is set and the output path is not
C23_AssemblyFrame ==
    [][AssemblyStep =>
          /\ DOMAIN inputs' = DOMAIN inputs
          /\ \A o \in DOMAIN inputs :
                 inputs'[o] # inputs[o] =>
                     /\ BetDerives
                     /\ o = "outfile"
                     /\ inputs'[o] = BetName(inputs["infile"])
          /\ BetDerives /\ allargs' # << >> => inputs'["outfile"] # inputs["outfile"]]_vars

\* Bet's cmdline was read and the derived path is stored
C23_Witness ==
    /\ CmdlineGiven
    /\ adapter = "Bet"
    /\ inputs["infile"] = FileA
    /\ inputs["outfile"] = BetName(FileA)

-----------------------------------------------------------------------------
(* Properties of a Fast prediction taken step by step, checked under       *)
(* SpecPrediction.                                                         *)

\* a prediction of Fast has begun in the current call
FastPredicting ==
    /\ adapter = "Fast"
    /\ Len(trace) >= 3
    /\ pc \in {"predicting", "predicted", "done"}

\* C24: a Fast prediction reads the registry once, before it derives any
\* path: the extension it read stays as it is through the loop, and all
\* paths of one prediction end in the same extension, also when another
\* collaborator sets the registry during the prediction or the check of
\* the files
C24_ReadOnce ==
    /\ [](/\ FastPredicting =>
                \A p, q \in FastPredictedPaths :
                    p.segs[Len(p.segs)] = q.segs[Len(q.segs)]
          /\ pc = "predicting" =>
                \A p \in FastPredictedPaths :
                    p.segs[Len(p.segs)] = locals.envext[Len(locals.envext)]
          /\ pc = "predicting" /\ locals.item = 0 => FastPredictedPaths = {})
    /\ [][pc = "predicting" /\ pc' = "predicting" =>
              locals'.envext = locals.envext]_vars

\* the registry was set to another extension after the first input file
\* was predicted and before the second is
C24_Witness ==
    /\ adapter = "Fast"
    /\ pc = "predicting"
    /\ locals.item = 1
    /\ FastPredictedPaths # {}
    /\ Len(Fast_infiles(inputs)) = 2
    /\ env \in SupportedNames
    /\ LastExtension(env) # locals.envext[Len(locals.envext)]


\* a plain Flirt.run is under way on an adapter whose stored flags hold the
\* '-applyxfm' that an earlier applyxfm put there
RunAfterApplyxfm ==
    /\ adapter = "Flirt"
    /\ entry = "run"
    /\ "-applyxfm" \in Range(FlagTokens(inputs["flags"]))

\* the command holds the flags with '-applyxfm' among them
EmitsApplyxfm ==
    \E i \in DOMAIN allargs :
        /\ allargs[i].opt = "flags"
        /\ \E j \in DOMAIN Converted(allargs[i]) :
               "-applyxfm" \in Range(FlagTokens(Converted(allargs[i])[j]))

\* the output volume of the run is there
VolumeFound ==
    /\ predicted.outfile # << >>
    /\ GlobCount(fs, predicted.outfile[1]) >= 1

\* C25: the '-applyxfm' that applyxfm stores in the flags persists: a later
\* plain run on the same adapter, with no new flags, has it in its command,
\* and that run looks up the output matrix as every run does
C25_ModePersists ==
    [][/\ RunAfterApplyxfm /\ pc = "entered" /\ pc' = "assembled" => EmitsApplyxfm'
       /\ RunAfterApplyxfm /\ pc = "predicted" /\ VolumeFound =>
              /\ predicted.outmatrix = << >> =>
                     outcome'.kind = "raised" /\ outcome'.role = "outmatrix"
              /\ predicted.outmatrix # << >> =>
                     /\ outcome'.kind = "returned" <=>
                            GlobCount(fs, predicted.outmatrix[1]) >= 1
                     /\ outcome'.kind = "raised" =>
                            /\ outcome'.role = "outmatrix"
                            /\ outcome'.error = "IOError"]_vars

\* a run after an applyxfm had '-applyxfm' in its command and failed on
\* the output matrix, the output volume being there
C25_Witness ==
    /\ RunAfterApplyxfm
    /\ calls = 2
    /\ pc = "done" /\ rc = 0 /\ trace = Steps
    /\ EmitsApplyxfm
    /\ VolumeFound
    /\ outcome.kind = "raised" /\ outcome.role = "outmatrix"
    /\ outcome.error = "IOError"

====
